---- MODULE Spec2Model ----
(***************************************************************************)
(* Model of the Obsidian daily-note exporters of google-gmail-tool:       *)
(*   core/obsidian_calendar_exporter.py  (ObsidianCalendarExporter)        *)
(*   core/obsidian_task_exporter.py      (ObsidianTaskExporter)            *)
(*   core/obsidian_exporter.py           (ObsidianExporter, email threads) *)
(*   core/task_client.py                 (TaskClient)                      *)
(*   commands/calendar_commands.py, commands/task_commands.py              *)
(*                                        (export-obsidian batch loops)    *)
(*                                                                         *)
(* Text is modelled at character level: a Python str is a sequence of     *)
(* one-character strings, offsets are Python's 0-based offsets, and the   *)
(* regular expressions of the source are evaluated by the operators       *)
(* below as the re module evaluates them.                                 *)
(***************************************************************************)
EXTENDS Integers, Sequences, FiniteSets, TLC

(***************************************************************************)
(* Python str primitives                                                   *)
(***************************************************************************)
NL == "\n"
SP == " "

\* the characters str.strip() and the regex class \s remove / match
Whitespace == {SP, NL}

\* content[a:b] with 0-based offsets a <= b
Slice(s, a, b) == SubSeq(s, a + 1, b)

\* True when p occurs in s at 0-based offset i
StartsWithAt(s, i, p) ==
    /\ i >= 0
    /\ i + Len(p) <= Len(s)
    /\ \A k \in 1..Len(p) : s[i + k] = p[k]

\* the least and the greatest element of a non-empty set of integers
Min(S) == CHOOSE x \in S : \A y \in S : x <= y
Max(S) == CHOOSE x \in S : \A y \in S : y <= x

\* str.rstrip(): cut after the last character that is not whitespace
rstrip(s) ==
    SubSeq(s, 1, Max({0} \cup {i \in 1..Len(s) : s[i] \notin Whitespace}))

\* str.lstrip(): cut before the first character that is not whitespace
lstrip(s) ==
    SubSeq(s, Min({Len(s) + 1} \cup {i \in 1..Len(s) : s[i] \notin Whitespace}), Len(s))

\* str.strip()
strip(s) == lstrip(rstrip(s))

\* str.find(sep): 0-based offset of the first occurrence of sep at or
\* after offset i, or -1
find(s, sep, i) ==
    LET hits == {j \in i..(Len(s) - Len(sep)) : StartsWithAt(s, j, sep)}
    IN  IF hits = {} THEN -1 ELSE Min(hits)

\* str.split(sep): the list of pieces (sep is never empty)
RECURSIVE split(_, _)
split(s, sep) ==
    LET i == find(s, sep, 0)
    IN  IF i < 0 THEN <<s>>
        ELSE <<Slice(s, 0, i)>> \o split(Slice(s, i + Len(sep), Len(s)), sep)

\* "\n".join(lines)
RECURSIVE join(_)
join(lines) ==
    IF lines = <<>> THEN <<>>
    ELSE IF Len(lines) = 1 THEN lines[1]
    ELSE lines[1] \o <<NL>> \o join(Tail(lines))

\* Get with the default taken for True
Get_default_true(d, key) == IF key \in DOMAIN d THEN d[key] ELSE TRUE

\* dict.get(key, False) on a dict modelled as a function
Get(d, key) == IF key \in DOMAIN d THEN d[key] ELSE FALSE

\* the empty dict
EmptyDict == [k \in {} |-> FALSE]

\* DictSet that keeps a key checked once a line has checked it
DictSet_any_checked(d, key, value) ==
    [k \in (DOMAIN d) \cup {key} |->
        IF k = key THEN value \/ (key \in DOMAIN d /\ d[key]) ELSE d[k]]

\* DictSet that keeps the value of a key that is already there
DictSet_keep_first(d, key, value) ==
    [k \in (DOMAIN d) \cup {key} |-> IF k \in DOMAIN d THEN d[k] ELSE value]

\* d[key] = value
DictSet(d, key, value) == [k \in (DOMAIN d) \cup {key} |-> IF k = key THEN value ELSE d[k]]

\* Python None, and a key that is absent from a dict
None == <<"None">>
Missing == <<"Missing">>

\* truthiness of an optional str: None and "" are falsy
Truthy(v) == v # None /\ v # Missing /\ v # <<>>

(***************************************************************************)
(* Literals of the source                                                  *)
(***************************************************************************)
H2Calendar == <<"#","#"," ","C","a","l","e","n","d","a","r">>
H2Tasks == <<"#","#"," ","T","a","s","k","s">>
H2Prefix == <<"#","#"," ">>
NoEventsLine == <<"-"," ","N","o"," ","e","v","e","n","t","s"," ","s","c","h","e","d","u","l","e","d">>
NoTitle == <<"(","N","o"," ","t","i","t","l","e",")">>
AllDayPrefix == <<"A","l","l"," ","d","a","y",":"," ">>
AtSep == <<" ","@"," ">>
DuePrefix == <<" ","(","d","u","e",":"," ">>

(***************************************************************************)
(* Regular expressions of the source (re.MULTILINE semantics)              *)
(***************************************************************************)
\* ^ at 0-based offset p
LineStartAt(s, p) == p = 0 \/ s[p] = NL

\* $ at 0-based offset p
DollarAt(s, p) == p = Len(s) \/ s[p + 1] = NL

\* greedy \s* starting at offset p: the offset after the whitespace run
WsRunEnd(s, p) ==
    Min({Len(s)} \cup {q \in p..(Len(s) - 1) : s[q + 1] \notin Whitespace})

\* \s*$ : back off from the greedy end q down to h until $ matches; -1 if never
BacktrackDollar(s, q, h) ==
    LET ends == {r \in h..q : DollarAt(s, r)}
    IN  IF ends = {} THEN -1 ELSE Max(ends)

\* ^<heading>\s*$ tried at offset i: match.end(), or -1
HeadingMatchEnd(s, i, heading) ==
    IF LineStartAt(s, i) /\ StartsWithAt(s, i, heading)
    THEN BacktrackDollar(s, WsRunEnd(s, i + Len(heading)), i + Len(heading))
    ELSE -1

NoMatch == [found |-> FALSE, start |-> -1, end |-> -1]

\* re.search(r"^<heading>\s*$", s, re.MULTILINE): the leftmost match
SearchHeading(s, heading) ==
    LET starts == {i \in 0..Len(s) : HeadingMatchEnd(s, i, heading) >= 0}
    IN  IF starts = {} THEN NoMatch
        ELSE [found |-> TRUE, start |-> Min(starts),
              end |-> HeadingMatchEnd(s, Min(starts), heading)]

\* re.search(r"^## ", s, re.MULTILINE).start(), or -1
SearchH2(s) ==
    LET starts == {p \in 0..Len(s) : LineStartAt(s, p) /\ StartsWithAt(s, p, H2Prefix)}
    IN  IF starts = {} THEN -1 ELSE Min(starts)

\* the prefix "- [ ] " / "- [x] " followed by at least one character:
\* ^- \[([ x])\] (.+)  on a text without newline
IsChecklistLine(line) ==
    /\ Len(line) >= 7
    /\ line[1] = "-" /\ line[2] = SP /\ line[3] = "["
    /\ line[4] \in {SP, "x"}
    /\ line[5] = "]" /\ line[6] = SP

(***************************************************************************)
(* ObsidianCalendarExporter                                                *)
(***************************************************************************)
\* _extract_calendar_section
Cal_extract_calendar_section(content) ==
    LET match == SearchHeading(content, H2Calendar)
    IN  IF ~match.found THEN <<>>
        ELSE LET next_match == SearchH2(Slice(content, match.end, Len(content)))
                 end == IF next_match >= 0 THEN match.end + next_match
                        ELSE Len(content)
             IN  strip(Slice(content, match.start, end))

\* signature = item_text.split(" @ ")[0].strip()
Cal_signature(item_text) == strip(split(item_text, AtSep)[1])

\* _parse_checked_items: the loop over calendar_section.split("\n")
RECURSIVE Cal_parse_lines(_, _)
Cal_parse_lines(lines, checked_items) ==
    IF lines = <<>> THEN checked_items
    ELSE LET line == strip(lines[1])
         IN  IF IsChecklistLine(line)
             THEN LET is_checked == line[4] = "x"
                      item_text == strip(SubSeq(line, 7, Len(line)))
                  IN  Cal_parse_lines(Tail(lines),
                          DictSet(checked_items, Cal_signature(item_text), is_checked))
             ELSE Cal_parse_lines(Tail(lines), checked_items)

Cal_parse_checked_items(calendar_section) ==
    Cal_parse_lines(split(calendar_section, <<NL>>), EmptyDict)

\* _format_event_checklist
Cal_format_event_checklist(event) ==
    LET summary == IF event.summary = Missing THEN NoTitle ELSE event.summary
        start_time == IF Len(event.start) > 16 THEN Slice(event.start, 11, 16)
                      ELSE event.start
        end_time == IF Len(event.end) > 16 THEN Slice(event.end, 11, 16)
                    ELSE event.end
        item == IF event.is_all_day THEN AllDayPrefix \o summary
                ELSE start_time \o <<"-">> \o end_time \o <<SP>> \o summary
    IN  IF Truthy(event.location) THEN item \o AtSep \o event.location ELSE item

\* Cal_event_line that checks an event the previous section does not know
Cal_event_line_unknown_checked(event, checked_items) ==
    LET item_text == Cal_format_event_checklist(event)
        signature == Cal_signature(item_text)
        check_mark == IF signature \in DOMAIN checked_items
                      THEN (IF checked_items[signature] THEN "x" ELSE SP)
                      ELSE "x"
    IN  <<"-", SP, "[", check_mark, "]", SP>> \o item_text

\* one line of _build_calendar_section's loop
Cal_event_line(event, checked_items) ==
    LET item_text == Cal_format_event_checklist(event)
        signature == Cal_signature(item_text)
        check_mark == IF Get(checked_items, signature) THEN "x" ELSE SP
    IN  <<"-", SP, "[", check_mark, "]", SP>> \o item_text

\* _build_calendar_section that lists the events last first
Cal_build_calendar_section_reversed(events, checked_items) ==
    IF events = <<>> THEN join(<<H2Calendar, NoEventsLine>>)
    ELSE join(<<H2Calendar>> \o
              [i \in 1..Len(events) |->
                  Cal_event_line(events[Len(events) + 1 - i], checked_items)])

\* _build_calendar_section without the placeholder line of an empty day
Cal_build_calendar_section_bare(events, checked_items) ==
    join(<<H2Calendar>> \o
         [i \in 1..Len(events) |-> Cal_event_line(events[i], checked_items)])

\* _build_calendar_section
Cal_build_calendar_section(events, checked_items) ==
    IF events = <<>> THEN join(<<H2Calendar, NoEventsLine>>)
    ELSE join(<<H2Calendar>> \o
              [i \in 1..Len(events) |-> Cal_event_line(events[i], checked_items)])

\* _replace_calendar_section that trims the text before the heading
Cal_replace_trims_before(content, new_calendar_section) ==
    LET match == SearchHeading(content, H2Calendar)
    IN  IF ~match.found
        THEN rstrip(content) \o <<NL, NL>> \o new_calendar_section \o <<NL>>
        ELSE LET next_match == SearchH2(Slice(content, match.end, Len(content)))
                 kept == rstrip(Slice(content, 0, match.start))
             IN  IF next_match >= 0
                 THEN kept \o <<NL>> \o new_calendar_section \o <<NL, NL>>
                      \o Slice(content, match.end + next_match, Len(content))
                 ELSE kept \o <<NL>> \o new_calendar_section \o <<NL>>

\* _replace_calendar_section that replaces the heading line only
Cal_replace_heading_only(content, new_calendar_section) ==
    LET match == SearchHeading(content, H2Calendar)
    IN  IF ~match.found
        THEN rstrip(content) \o <<NL, NL>> \o new_calendar_section \o <<NL>>
        ELSE Slice(content, 0, match.start) \o new_calendar_section
             \o Slice(content, match.end, Len(content))

\* _replace_calendar_section that appends whether or not the heading is there
Cal_replace_always_appends(content, new_calendar_section) ==
    rstrip(content) \o <<NL, NL>> \o new_calendar_section \o <<NL>>

\* _replace_calendar_section
Cal_replace_calendar_section(content, new_calendar_section) ==
    LET match == SearchHeading(content, H2Calendar)
    IN  IF ~match.found
        THEN rstrip(content) \o <<NL, NL>> \o new_calendar_section \o <<NL>>
        ELSE LET next_match == SearchH2(Slice(content, match.end, Len(content)))
             IN  IF next_match >= 0
                 THEN Slice(content, 0, match.start) \o new_calendar_section
                      \o <<NL, NL>>
                      \o Slice(content, match.end + next_match, Len(content))
                 ELSE Slice(content, 0, match.start) \o new_calendar_section \o <<NL>>

(***************************************************************************)
(* datetime: a calendar day of November 2025 and a time of day.           *)
(* The model's calendar is that single month, so that strftime and        *)
(* strptime stay two-digit day conversions.                                *)
(***************************************************************************)
MinutesPerDay == 1440
FirstDay == 1
LastDay == 30

Digits == <<"0","1","2","3","4","5","6","7","8","9">>
YearMonthPrefix == <<"2","0","2","5","-","1","1","-">>

\* datetime.strftime("%Y-%m-%d")
strftime(date) ==
    YearMonthPrefix \o <<Digits[(date.day \div 10) + 1], Digits[(date.day % 10) + 1]>>

DigitValue(c) == IF c \in {Digits[i] : i \in 1..10}
                 THEN (CHOOSE i \in 1..10 : Digits[i] = c) - 1
                 ELSE -1

\* the day-of-month field of s, which %d reads as one or two digits; -1 if
\* it is not one
DayField(s) ==
    IF Len(s) = 10 /\ DigitValue(s[9]) >= 0 /\ DigitValue(s[10]) >= 0
    THEN 10 * DigitValue(s[9]) + DigitValue(s[10])
    ELSE IF Len(s) = 9 /\ DigitValue(s[9]) >= 0 THEN DigitValue(s[9])
    ELSE -1

\* datetime.strptime(s, "%Y-%m-%d") succeeds
strptime_ok(s) ==
    /\ Len(s) \in {9, 10}
    /\ SubSeq(s, 1, 8) = YearMonthPrefix
    /\ DayField(s) \in FirstDay..LastDay

\* datetime.strptime(s, "%Y-%m-%d"): midnight of the parsed day
strptime(s) == [day |-> DayField(s), minute |-> 0]

\* date + timedelta(days=n)
PlusDays(date, n) == [day |-> date.day + n, minute |-> date.minute]

\* date.replace(hour=0, minute=0, second=0, microsecond=0)
Midnight(date) == [day |-> date.day, minute |-> 0]

\* datetime ordering
Instant(date) == date.day * MinutesPerDay + date.minute

\* _build_frontmatter
Cal_build_frontmatter(date) ==
    join(<< <<"-","-","-">>,
            <<"d","a","t","e",":"," ">> \o strftime(date),
            <<"t","y","p","e",":"," ","d","a","i","l","y">>,
            <<"t","a","g","s",":">>,
            <<" "," ","-"," ","d","a","i","l","y">>,
            <<"-","-","-">> >>)

\* export_events_to_daily: the text handed to note_file.write_text, given
\* whether the note file exists and what note_file.read_text returns
Cal_export_events_to_daily(file_exists, file_text, events, target_date) ==
    LET date_str == strftime(target_date)
        existing_content == IF file_exists THEN file_text ELSE <<>>
        existing_calendar_section ==
            IF file_exists THEN Cal_extract_calendar_section(existing_content)
            ELSE <<>>
        checked_items == Cal_parse_checked_items(existing_calendar_section)
        new_calendar_section == Cal_build_calendar_section(events, checked_items)
    IN  IF existing_content # <<>>
        THEN Cal_replace_calendar_section(existing_content, new_calendar_section)
        ELSE Cal_build_frontmatter(target_date) \o <<NL, NL, "#", SP>> \o date_str
             \o <<NL, NL>> \o new_calendar_section

(***************************************************************************)
(* ObsidianTaskExporter                                                    *)
(***************************************************************************)
\* _extract_task_signature
Task_extract_task_signature(item_text) == strip(item_text)

\* offset of the first "\n" at or after p, or Len(s)
LineEnd(s, p) == Min({Len(s)} \cup {q \in p..(Len(s) - 1) : s[q + 1] = NL})

\* the checklist pattern without its ^: a match at any column
Task_checklist_at_any_column(s, p) ==
    /\ p + 7 <= Len(s)
    /\ IsChecklistLine(SubSeq(s, p + 1, p + 7))
    /\ s[p + 7] # NL

\* ^- \[([ x])\] (.+?)(?:\n|$) tried at offset p
Task_checklist_at(s, p) ==
    /\ LineStartAt(s, p)
    /\ p + 7 <= Len(s)
    /\ IsChecklistLine(SubSeq(s, p + 1, p + 7))
    /\ s[p + 7] # NL

\* re.finditer over tasks_content from offset pos, filling checked_items:
\* the leftmost match at or after pos, then on from the end of that match
RECURSIVE Task_finditer(_, _, _)
Task_finditer(s, pos, checked_items) ==
    LET starts == {p \in pos..Len(s) : Task_checklist_at(s, p)}
    IN  IF starts = {} THEN checked_items
        ELSE LET p == Min(starts)
                 q == LineEnd(s, p + 7)
                 check_mark == s[p + 4]
                 item_text == Slice(s, p + 6, q)
                 signature == Task_extract_task_signature(item_text)
                 match_end == IF q < Len(s) THEN q + 1 ELSE q
             IN  Task_finditer(s, match_end,
                     DictSet(checked_items, signature, check_mark = "x"))

\* the slice of content that _parse_checked_items scans
Task_tasks_content(content) ==
    LET tasks_match == SearchHeading(content, H2Tasks)
        start_pos == tasks_match.end
        next_section == SearchH2(Slice(content, start_pos, Len(content)))
    IN  IF ~tasks_match.found THEN <<>>
        ELSE IF next_section >= 0
             THEN Slice(content, start_pos, start_pos + next_section)
             ELSE Slice(content, start_pos, Len(content))

\* _parse_checked_items
Task_parse_checked_items(content) ==
    IF ~SearchHeading(content, H2Tasks).found THEN EmptyDict
    ELSE Task_finditer(Task_tasks_content(content), 0, EmptyDict)

\* Task_category with overdue taken against the target's time of day
Task_category_overdue_by_time(task, target_date) ==
    IF ~Truthy(task.due) THEN "no_due"
    ELSE LET task_due_date_str == Slice(task.due, 0, IF Len(task.due) < 10 THEN Len(task.due) ELSE 10)
         IN  IF ~strptime_ok(task_due_date_str) THEN "raise"
             ELSE LET task_due_date == strptime(task_due_date_str)
                      target_date_str == strftime(target_date)
                      tomorrow_date_str == strftime(PlusDays(target_date, 1))
                      week_end_date == PlusDays(target_date, 7)
                  IN  IF Instant(task_due_date) < Instant(target_date) THEN "overdue"
                      ELSE IF task_due_date_str = target_date_str THEN "today"
                      ELSE IF task_due_date_str = tomorrow_date_str THEN "tomorrow"
                      ELSE IF Instant(task_due_date) <= Instant(week_end_date) THEN "this_week"
                      ELSE "dropped"

\* Task_category with the week end excluded (< for <=)
Task_category_week_end_excluded(task, target_date) ==
    IF ~Truthy(task.due) THEN "no_due"
    ELSE LET task_due_date_str == Slice(task.due, 0, IF Len(task.due) < 10 THEN Len(task.due) ELSE 10)
         IN  IF ~strptime_ok(task_due_date_str) THEN "raise"
             ELSE LET task_due_date == strptime(task_due_date_str)
                      target_date_str == strftime(target_date)
                      tomorrow_date_str == strftime(PlusDays(target_date, 1))
                      week_end_date == PlusDays(target_date, 7)
                  IN  IF Instant(task_due_date) < Instant(Midnight(target_date)) THEN "overdue"
                      ELSE IF task_due_date_str = target_date_str THEN "today"
                      ELSE IF task_due_date_str = tomorrow_date_str THEN "tomorrow"
                      ELSE IF Instant(task_due_date) < Instant(week_end_date) THEN "this_week"
                      ELSE "dropped"

\* the branch of _categorize_tasks's loop body a task takes;
\* "raise" is the ValueError of datetime.strptime
Task_category(task, target_date) ==
    IF ~Truthy(task.due) THEN "no_due"
    ELSE LET task_due_date_str == Slice(task.due, 0, IF Len(task.due) < 10 THEN Len(task.due) ELSE 10)
         IN  IF ~strptime_ok(task_due_date_str) THEN "raise"
             ELSE LET task_due_date == strptime(task_due_date_str)
                      target_date_str == strftime(target_date)
                      tomorrow_date_str == strftime(PlusDays(target_date, 1))
                      week_end_date == PlusDays(target_date, 7)
                  IN  IF Instant(task_due_date) < Instant(Midnight(target_date)) THEN "overdue"
                      ELSE IF task_due_date_str = target_date_str THEN "today"
                      ELSE IF task_due_date_str = tomorrow_date_str THEN "tomorrow"
                      ELSE IF Instant(task_due_date) <= Instant(week_end_date) THEN "this_week"
                      ELSE "dropped"

Categories == <<"overdue", "today", "tomorrow", "this_week", "no_due">>

\* _categorize_tasks raises
Task_categorize_raises(tasks, target_date) ==
    \E i \in 1..Len(tasks) : Task_category(tasks[i], target_date) = "raise"

\* _categorize_tasks: category key -> list of tasks, in input order
Task_categorize_tasks(tasks, target_date) ==
    [c \in {Categories[i] : i \in 1..Len(Categories)} |->
        SelectSeq(tasks, LAMBDA t : Task_category(t, target_date) = c)]

\* _format_task_checklist
Task_format_task_checklist(task) ==
    LET title == IF task.title = Missing THEN NoTitle ELSE task.title
    IN  IF Truthy(task.due)
        THEN title \o DuePrefix
             \o Slice(task.due, 0, IF Len(task.due) < 10 THEN Len(task.due) ELSE 10)
             \o <<")">>
        ELSE title

\* _build_tasks_section lines for one task, checked when the remote status
\* is completed
Task_task_lines_remote_status(task, checked_items) ==
    LET item_text == Task_format_task_checklist(task)
        signature == Task_extract_task_signature(item_text)
        check_mark == IF Get(checked_items, signature) \/ task.status = <<"completed">>
                      THEN "x" ELSE SP
        note_lines == IF Truthy(task.notes)
                      THEN SelectSeq(split(task.notes, <<NL>>), LAMBDA l : strip(l) # <<>>)
                      ELSE <<>>
    IN  << <<"-", SP, "[", check_mark, "]", SP>> \o item_text >>
        \o [i \in 1..Len(note_lines) |-> <<SP, SP>> \o note_lines[i]]

\* the lines _build_tasks_section appends for one task
Task_task_lines(task, checked_items) ==
    LET item_text == Task_format_task_checklist(task)
        signature == Task_extract_task_signature(item_text)
        check_mark == IF Get(checked_items, signature) THEN "x" ELSE SP
        note_lines == IF Truthy(task.notes)
                      THEN SelectSeq(split(task.notes, <<NL>>), LAMBDA l : strip(l) # <<>>)
                      ELSE <<>>
    IN  << <<"-", SP, "[", check_mark, "]", SP>> \o item_text >>
        \o [i \in 1..Len(note_lines) |-> <<SP, SP>> \o note_lines[i]]

RECURSIVE Task_category_lines(_, _)
Task_category_lines(tasks_in_category, checked_items) ==
    IF tasks_in_category = <<>> THEN <<>>
    ELSE Task_task_lines(tasks_in_category[1], checked_items)
         \o Task_category_lines(Tail(tasks_in_category), checked_items)

SectionTitles ==
    [overdue |-> <<"#","#","#"," ","O","v","e","r","d","u","e">>,
     today |-> <<"#","#","#"," ","T","o","d","a","y">>,
     tomorrow |-> <<"#","#","#"," ","T","o","m","o","r","r","o","w">>,
     this_week |-> <<"#","#","#"," ","T","h","i","s"," ","W","e","e","k">>,
     no_due |-> <<"#","#","#"," ","N","o"," ","D","u","e"," ","D","a","t","e">>]

RECURSIVE Task_sections_lines(_, _, _)
Task_sections_lines(i, categorized, checked_items) ==
    IF i > Len(Categories) THEN <<>>
    ELSE LET tasks_in_category == categorized[Categories[i]]
         IN  (IF tasks_in_category = <<>> THEN <<>>
              ELSE <<SectionTitles[Categories[i]]>>
                   \o Task_category_lines(tasks_in_category, checked_items)
                   \o << <<>> >>)
             \o Task_sections_lines(i + 1, categorized, checked_items)

\* _build_tasks_section
Task_build_tasks_section(categorized, checked_items) ==
    join(<<H2Tasks, <<>> >> \o Task_sections_lines(1, categorized, checked_items))

\* _create_note_template without the blank line after the "# date" heading
Task_create_note_template_no_blank(date, tasks_section) ==
    join(<< <<"-","-","-">>,
            <<"d","a","t","e",":"," ">> \o strftime(date),
            <<"t","y","p","e",":"," ","d","a","i","l","y">>,
            <<"t","a","g","s",":">>,
            <<" "," ","-"," ","d","a","i","l","y">>,
            <<"-","-","-">>,
            <<>>,
            <<"#", SP>> \o strftime(date),
            <<>> >>) \o tasks_section

\* _create_note_template
Task_create_note_template(date, tasks_section) ==
    join(<< <<"-","-","-">>,
            <<"d","a","t","e",":"," ">> \o strftime(date),
            <<"t","y","p","e",":"," ","d","a","i","l","y">>,
            <<"t","a","g","s",":">>,
            <<" "," ","-"," ","d","a","i","l","y">>,
            <<"-","-","-">>,
            <<>>,
            <<"#", SP>> \o strftime(date),
            <<>>,
            <<>> >>) \o tasks_section

\* end of the match of (^## Tasks\s*$)(.*?)(?=^## |\Z): the first offset at
\* or after p where a line starts with "## ", or the end of the text
Task_lookahead_end(s, p) ==
    Min({Len(s)} \cup {q \in p..Len(s) : LineStartAt(s, q) /\ StartsWithAt(s, q, H2Prefix)})

\* _merge_content that drops the text after the section it replaces
Task_merge_drops_following(existing_content, tasks_section, target_date) ==
    IF existing_content = <<>>
    THEN Task_create_note_template(target_date, tasks_section)
    ELSE LET head == SearchHeading(existing_content, H2Tasks)
         IN  IF head.found
             THEN Slice(existing_content, 0, head.start) \o tasks_section
             ELSE rstrip(existing_content) \o <<NL, NL>> \o tasks_section

\* _merge_content
Task_merge_content(existing_content, tasks_section, target_date) ==
    IF existing_content = <<>>
    THEN Task_create_note_template(target_date, tasks_section)
    ELSE LET head == SearchHeading(existing_content, H2Tasks)
         IN  IF head.found
             THEN LET match_end == Task_lookahead_end(existing_content, head.end)
                      new_content == Slice(existing_content, 0, head.start) \o tasks_section
                  IN  IF match_end < Len(existing_content)
                      THEN new_content \o <<NL>>
                           \o lstrip(Slice(existing_content, match_end, Len(existing_content)))
                      ELSE new_content
             ELSE rstrip(existing_content) \o <<NL, NL>> \o tasks_section

\* export_tasks_to_daily: the text handed to note_path.write_text (the
\* caller checks Task_categorize_raises first)
Task_export_tasks_to_daily(file_exists, file_text, tasks, target_date) ==
    LET existing_content == IF file_exists THEN file_text ELSE <<>>
        checked_items == Task_parse_checked_items(existing_content)
        categorized == Task_categorize_tasks(tasks, target_date)
        tasks_section == Task_build_tasks_section(categorized, checked_items)
    IN  Task_merge_content(existing_content, tasks_section, target_date)

(***************************************************************************)
(* Bounds and inputs of the model                                          *)
(***************************************************************************)
\* exports in a row on one note
MaxRuns == 2
\* remote items in one fetch
MaxItems == 2
\* checklist lines the prior note has in a section
MaxOldLines == 2
\* target dates of one export-obsidian run
MaxDates == 3

T0900 == <<"0","9",":","0","0">>
T1000 == <<"1","0",":","0","0">>
T1100 == <<"1","1",":","0","0">>
TitleA == <<"a">>
TitleB == <<"b">>
TitleAatB == <<"a"," ","@"," ","b">>
TitleAat == <<"a"," ","@">>
LocZ == <<"z">>

\* the day of the daily note: 2025-11-20
TargetDay == 20

\* target_date as the commands pass it: midnight (--date, --range-start) or
\* datetime.utcnow() with its time of day (--today, --this-week)
TargetDates == {[day |-> TargetDay, minute |-> m] : m \in {0, 785, 1439}}

\* an ISO timestamp as the Calendar API returns it
IsoDateTime(day, hhmm) ==
    strftime([day |-> day, minute |-> 0]) \o <<"T">> \o hhmm \o <<":","0","0","Z">>

Event(summary, location, start, end, is_all_day) ==
    [summary |-> summary, location |-> location, start |-> start, end |-> end,
     is_all_day |-> is_all_day]

TimedEvent(summary, location, from, to) ==
    Event(summary, location, IsoDateTime(TargetDay, from), IsoDateTime(TargetDay, to), FALSE)

AllDayEvent(summary, location) ==
    Event(summary, location, strftime([day |-> TargetDay, minute |-> 0]),
          strftime([day |-> TargetDay + 1, minute |-> 0]), TRUE)

\* the lists of at most n successive elements of a stream read as a cycle
Windows(stream, n) ==
    { [k \in 1..m |-> stream[((i + k - 2) % Len(stream)) + 1]] :
        i \in 1..Len(stream), m \in 0..n }

Elements(stream) == {stream[i] : i \in 1..Len(stream)}

\* the events the fetches are cut from: an event twice, with and without a
\* location, another title, another time, and titles that hold the
\* characters of " @ "
EventStream ==
    << TimedEvent(TitleA, None, T0900, T1000),
       TimedEvent(TitleA, None, T0900, T1000),
       TimedEvent(TitleA, LocZ, T0900, T1000),
       TimedEvent(TitleB, None, T0900, T1000),
       TimedEvent(TitleA, None, T1000, T1100),
       TimedEvent(TitleAatB, None, T0900, T1000),
       TimedEvent(TitleAat, None, T0900, T1000),
       TimedEvent(TitleAat, LocZ, T0900, T1000) >>

EventPool == Elements(EventStream)

\* a due timestamp as the Tasks API returns it
IsoDue(day) ==
    strftime([day |-> day, minute |-> 0])
    \o <<"T","0","0",":","0","0",":","0","0",".","0","0","0","Z">>

Task(title, due, notes) == [title |-> title, due |-> due, notes |-> notes]

NotesText == <<"n","\n","\n","-"," ","[","x","]"," ","a","\n","#","#"," ","T","a","s","k","s">>

\* the tasks the fetches are cut from: a task twice, with and without a due
\* date, another title, a task with notes, and a task due after the week
TaskStream ==
    << Task(TitleA, None, None),
       Task(TitleA, None, None),
       Task(TitleA, IsoDue(TargetDay), None),
       Task(TitleB, IsoDue(TargetDay + 1), NotesText),
       Task(TitleB, None, None),
       Task(TitleB, IsoDue(TargetDay + 8), None) >>

TaskPool == Elements(TaskStream)

\* due dates relative to the target day, on both sides of every bucket limit
DueOffsets == {-1, 0, 1, 2, 7, 8}

\* the tasks of the bucket specification
BucketTaskPool ==
    { Task(TitleA, IsoDue(TargetDay + k), None) : k \in DueOffsets }
    \cup { Task(TitleA, None, None), Task(TitleA, <<>>, None) }

SeqsUpTo(S, n) == UNION {[1..k -> S] : k \in 0..n}

\* the fetches: the events of list_events and the tasks of list_tasks
Fetches ==
    { <<ev, <<>> >> : ev \in Windows(EventStream, MaxItems) }
    \cup { << <<>>, tk >> : tk \in Windows(TaskStream, MaxItems) }

CheckLine(mark, text) == <<"-", SP, "[", mark, "]", SP>> \o text
SlotA == T0900 \o <<"-">> \o T1000 \o <<SP>> \o TitleA
SlotB == T0900 \o <<"-">> \o T1000 \o <<SP>> \o TitleB

\* lines a user's note may hold under ## Calendar
CalendarOldLines ==
    << CheckLine("x", SlotA), CheckLine(SP, SlotA), CheckLine("x", SlotA),
       CheckLine("x", SlotB) >>

TaskTextADue == TitleA \o DuePrefix \o strftime([day |-> TargetDay, minute |-> 0]) \o <<")">>

\* lines a user's note may hold under ## Tasks
TasksOldLines ==
    << CheckLine("x", TitleA), CheckLine(SP, TitleA), CheckLine("x", TitleA),
       CheckLine("x", TitleB) >>

OtherHeading == <<"#","#"," ","N">>

\* what surrounds the owned section in a prior note: the lines before the
\* heading, the lines after the section and the end of the file
Frames ==
    { [before |-> <<>>, after |-> <<>>, tail |-> <<NL>>],
      [before |-> <<>>, after |-> <<>>, tail |-> <<>>],
      [before |-> << <<SP, "p">>, <<>> >>, after |-> << <<>>, OtherHeading, <<"q">> >>,
       tail |-> <<NL, NL>>] }

SectionNotes(heading, oldLines) ==
    { join(f.before \o <<heading>> \o body \o f.after) \o f.tail :
        f \in Frames, body \in Windows(oldLines, MaxOldLines) }

\* prior notes that repeat the owned heading, or write it with trailing blanks
RepeatedHeadingNotes(heading, line) ==
    { join(<<heading, line, OtherHeading, heading, line>>) \o <<NL>>,
      join(<<heading \o <<SP, SP>>, <<>>, line>>) }

\* prior notes without the section
PlainNotes == { <<>>, <<"x", NL>>, <<"x", NL, NL, NL>>, <<SP, NL>> }

\* prior notes with both sections, and with lines the parsers must classify
MixedNotes ==
    { join(<<H2Calendar, CheckLine("x", SlotA), <<>>, H2Tasks, <<>>,
             CheckLine("x", TaskTextADue)>>) \o <<NL>>,
      join(<<H2Tasks, CheckLine("x", TitleA), <<>>, H2Calendar,
             <<SP, SP>> \o CheckLine("x", SlotA),
             CheckLine(SP, SlotA \o AtSep \o LocZ)>>) \o <<NL>> }

\* prior notes whose owned section has no well-formed checklist line: a line
\* cut short, a capital X, no blank after the dash
MalformedNotes(heading, text) ==
    { join(<<heading, <<"-", SP, "[", "x">> >>),
      join(<<heading, <<"-", SP, "[", "X", "]", SP>> \o text,
             <<"-", "[", "x", "]", SP>> \o text>>) \o <<NL>> }

PriorNotes ==
    MalformedNotes(H2Calendar, SlotA)
    \cup MalformedNotes(H2Tasks, TitleA)
    \cup SectionNotes(H2Calendar, CalendarOldLines)
    \cup SectionNotes(H2Tasks, TasksOldLines)
    \cup RepeatedHeadingNotes(H2Calendar, CheckLine("x", SlotA))
    \cup RepeatedHeadingNotes(H2Tasks, CheckLine("x", TitleA))
    \cup PlainNotes
    \cup MixedNotes

Absent == [exists |-> FALSE, text |-> <<>>]
File(text) == [exists |-> TRUE, text |-> text]

\* the days that have a daily note file in the vault
NoteDays == TargetDay..(TargetDay + MaxDates - 1)

EmptyVault == [d \in NoteDays |-> Absent]

\* the command is not running
Idle == [pc |-> "idle", command |-> "none", target_dates |-> <<>>, i |-> 1,
         exported_notes |-> <<>>, stdout |-> <<>>, stderr |-> <<>>, exit_code |-> -1]

(***************************************************************************)
(* State                                                                   *)
(***************************************************************************)
VARIABLES
    vault,        \* day -> the daily note file of that day: [exists, text]
    unwritable,   \* the days whose note file cannot be written (write_text raises)
    events,       \* the events the Calendar API returns
    tasks,        \* the tasks the Tasks API returns
    target_date,  \* the datetime the exporters were last called with
    pre,          \* the note file as it was before the last export
    last_op,      \* the last export that ran: "none", "calendar", "tasks"
    prev_op,      \* the export that ran before the last one
    runs,         \* number of exports run
    batch,        \* the export-obsidian command: its position, locals and output
    procs,        \* the concurrent export runs: position and the content each read
    tasklists,    \* the task lists of the account, as tasklists().list returns them
    store,        \* the tasks of the default task list, in the API's order
    calls,        \* the requests sent to the Tasks API, in order
    result,       \* the outcome of each TaskClient operation run, in order
    obsidian_root, \* the vault root string the exporters were constructed with
    mail          \* the email thread export: the thread, its note file, the runs

vars == <<vault, unwritable, events, tasks, target_date, pre, last_op, prev_op, runs, batch,
          procs, tasklists, store, calls, result, obsidian_root, mail>>

\* the state of the exports, and the state of the Tasks API client
exportVars == <<vault, unwritable, events, tasks, target_date, pre, last_op, prev_op, runs, batch>>
clientVars == <<tasklists, store, calls, result>>

\* no email thread export
NoMail == mail = <<>>

\* the vault root of the runs that share one vault
VaultRoot == <<"/", "v">>

\* no concurrent export run, no TaskClient operation
NoProcs == [p \in {} |-> 0]
NoClient ==
    /\ tasklists = <<>>
    /\ store = <<>>
    /\ calls = <<>>
    /\ result = <<>>

\* the note file the exporters read and write for target_date
Note == vault[target_date.day]

\* a raised exception leaves the call without a result
Raises(command, date) ==
    \/ date.day \in unwritable
    \/ command = "task" /\ Task_categorize_raises(tasks, date)

\* ObsidianCalendarExporter.export_events_to_daily(events, date): the vault
\* after note_file.write_text
WriteEvents(date) ==
    [vault EXCEPT ![date.day] =
        File(Cal_export_events_to_daily(vault[date.day].exists, vault[date.day].text,
                                        events, date))]

\* ObsidianTaskExporter.export_tasks_to_daily(tasks, date): the vault after
\* note_path.write_text
WriteTasks(date) ==
    [vault EXCEPT ![date.day] =
        File(Task_export_tasks_to_daily(vault[date.day].exists, vault[date.day].text,
                                        tasks, date))]

\* export_events_to_daily as one of at most n export runs
ExportEventsUpTo(n) ==
    /\ batch.pc = "idle"
    /\ runs < n
    /\ ~Raises("calendar", target_date)
    /\ vault' = WriteEvents(target_date)
    /\ pre' = Note
    /\ prev_op' = last_op
    /\ last_op' = "calendar"
    /\ runs' = runs + 1
    /\ UNCHANGED <<unwritable, events, tasks, target_date, batch>>
    /\ UNCHANGED <<procs, clientVars, obsidian_root, mail>>

\* export_tasks_to_daily as one of at most n export runs
ExportTasksUpTo(n) ==
    /\ batch.pc = "idle"
    /\ runs < n
    /\ ~Raises("task", target_date)
    /\ vault' = WriteTasks(target_date)
    /\ pre' = Note
    /\ prev_op' = last_op
    /\ last_op' = "tasks"
    /\ runs' = runs + 1
    /\ UNCHANGED <<unwritable, events, tasks, target_date, batch>>
    /\ UNCHANGED <<procs, clientVars, obsidian_root, mail>>

ExportEvents == ExportEventsUpTo(MaxRuns)

ExportTasks == ExportTasksUpTo(MaxRuns)

Init ==
    /\ \E n \in {Absent} \cup {File(t) : t \in PriorNotes} :
          vault = [EmptyVault EXCEPT ![TargetDay] = n]
    /\ unwritable = {}
    /\ \E f \in Fetches : events = f[1] /\ tasks = f[2]
    /\ target_date = [day |-> TargetDay, minute |-> 785]
    /\ pre = Note
    /\ last_op = "none"
    /\ prev_op = "none"
    /\ runs = 0
    /\ batch = Idle
    /\ procs = NoProcs
    /\ NoClient
    /\ obsidian_root = VaultRoot
    /\ NoMail

Next == ExportEvents \/ ExportTasks

Spec == Init /\ [][Next]_vars

(***************************************************************************)
(* The task exporter over every due date around the bucket limits          *)
(***************************************************************************)
InitBuckets ==
    /\ \E n \in {Absent, File(join(<<H2Tasks, CheckLine("x", TaskTextADue)>>))} :
          vault = [EmptyVault EXCEPT ![TargetDay] = n]
    /\ unwritable = {}
    /\ events = <<>>
    /\ tasks \in SeqsUpTo(BucketTaskPool, MaxItems)
    /\ target_date \in TargetDates
    /\ pre = Note
    /\ last_op = "none"
    /\ prev_op = "none"
    /\ runs = 0
    /\ batch = Idle
    /\ procs = NoProcs
    /\ NoClient
    /\ obsidian_root = VaultRoot
    /\ NoMail

NextBuckets == ExportTasks

SpecBuckets == InitBuckets /\ [][NextBuckets]_vars

(***************************************************************************)
(* The export-obsidian commands (calendar_commands.py, task_commands.py):  *)
(* the loop over target_dates inside one try block                         *)
(***************************************************************************)
\* --range-start / --range-end: one datetime at midnight per day
RangeDates == [k \in 1..MaxDates |-> [day |-> TargetDay + k - 1, minute |-> 0]]

InitBatch ==
    /\ vault = EmptyVault
    /\ unwritable \in SUBSET NoteDays
    /\ \E f \in Fetches : events = f[1] /\ tasks = f[2]
    /\ target_date = RangeDates[1]
    /\ pre = Absent
    /\ last_op = "none"
    /\ prev_op = "none"
    /\ runs = 0
    /\ \E c \in {"calendar", "task"} :
          batch = [Idle EXCEPT !.pc = "loop", !.command = c, !.target_dates = RangeDates]
    /\ procs = NoProcs
    /\ NoClient
    /\ obsidian_root = VaultRoot
    /\ NoMail

\* one iteration of "for target_date in target_dates" that returns normally
BatchExport ==
    /\ batch.pc = "loop"
    /\ batch.i <= Len(batch.target_dates)
    /\ LET date == batch.target_dates[batch.i]
       IN  /\ ~Raises(batch.command, date)
           /\ vault' = IF batch.command = "calendar" THEN WriteEvents(date)
                       ELSE WriteTasks(date)
           /\ pre' = vault[date.day]
           /\ target_date' = date
           /\ prev_op' = last_op
           /\ last_op' = IF batch.command = "calendar" THEN "calendar" ELSE "tasks"
           /\ batch' = [batch EXCEPT !.i = @ + 1,
                                     !.exported_notes = Append(@, date.day)]
    /\ UNCHANGED <<unwritable, events, tasks, runs>>
    /\ UNCHANGED <<procs, clientVars, obsidian_root, mail>>

\* an iteration raises: control leaves the loop for "except Exception",
\* which echoes the error and calls sys.exit(1)
BatchFail ==
    /\ batch.pc = "loop"
    /\ batch.i <= Len(batch.target_dates)
    /\ LET date == batch.target_dates[batch.i]
       IN  /\ Raises(batch.command, date)
           /\ batch' = [batch EXCEPT !.pc = "exit",
                                     !.stderr = Append(@, [error |-> date.day]),
                                     !.exit_code = 1]
    /\ UNCHANGED <<vault, unwritable, events, tasks, target_date, pre, last_op, prev_op, runs>>
    /\ UNCHANGED <<procs, clientVars, obsidian_root, mail>>

\* the loop is over: the summary of the notes written is echoed
BatchSummary ==
    /\ batch.pc = "loop"
    /\ batch.i > Len(batch.target_dates)
    /\ batch' = [batch EXCEPT !.pc = "done",
                              !.stdout = Append(@, [notes |-> batch.exported_notes]),
                              !.exit_code = 0]
    /\ UNCHANGED <<vault, unwritable, events, tasks, target_date, pre, last_op, prev_op, runs>>
    /\ UNCHANGED <<procs, clientVars, obsidian_root, mail>>

NextBatch == BatchExport \/ BatchFail \/ BatchSummary

SpecBatch == InitBatch /\ [][NextBatch]_vars

(***************************************************************************)
(* The items as the API clients hand them to the exporters                 *)
(* (calendar_client.py _process_event, task_client.py _process_task)       *)
(***************************************************************************)
\* dict.get(key, default): the default stands in for an absent key only
GetOr(v, default) == IF v = Missing THEN default ELSE v

\* a or b
PyOr(a, b) == IF Truthy(a) THEN a ELSE b

\* CalendarClient._process_event, the fields the exporter reads
Cal_process_event(event) ==
    LET start_datetime == GetOr(event.start.dateTime, None)
        start_date == GetOr(event.start.date, None)
        end_datetime == GetOr(event.end.dateTime, None)
        end_date == GetOr(event.end.date, None)
        is_all_day == start_date # None
    IN  [summary |-> GetOr(event.summary, NoTitle),
         location |-> GetOr(event.location, None),
         start |-> PyOr(start_datetime, start_date),
         end |-> PyOr(end_datetime, end_date),
         is_all_day |-> is_all_day]

\* TaskClient._process_task
Task_process_task(task) ==
    [id |-> GetOr(task.id, None),
     title |-> GetOr(task.title, NoTitle),
     notes |-> GetOr(task.notes, None),
     due |-> GetOr(task.due, None),
     status |-> GetOr(task.status, None),
     completed |-> GetOr(task.completed, None),
     updated |-> GetOr(task.updated, None)]

\* titles the APIs return: no title key, an empty title, a title
RawTitles == {Missing, <<>>, TitleA}

\* events as the Calendar API returns them: timed and all day
RawEvents ==
    { [summary |-> t, location |-> Missing,
       start |-> [dateTime |-> IsoDateTime(TargetDay, T0900), date |-> Missing],
       end |-> [dateTime |-> IsoDateTime(TargetDay, T1000), date |-> Missing]] :
        t \in RawTitles }
    \cup
    { [summary |-> t, location |-> Missing,
       start |-> [dateTime |-> Missing, date |-> strftime([day |-> TargetDay, minute |-> 0])],
       end |-> [dateTime |-> Missing,
                date |-> strftime([day |-> TargetDay + 1, minute |-> 0])]] :
        t \in RawTitles }

\* tasks as the Tasks API returns them: with and without a due date
RawTasks ==
    { [id |-> <<"t">>, title |-> t, notes |-> Missing, due |-> d,
       status |-> <<"needsAction">>, completed |-> Missing, updated |-> Missing] :
        t \in RawTitles, d \in {Missing, IsoDue(TargetDay)} }

\* list_events / list_tasks: every raw item processed, in order
ProcessEvents(raw) == [i \in 1..Len(raw) |-> Cal_process_event(raw[i])]
ProcessTasks(raw) == [i \in 1..Len(raw) |-> Task_process_task(raw[i])]

InitTitles ==
    /\ \E n \in {Absent, File(<<"x", NL>>)} :
          vault = [EmptyVault EXCEPT ![TargetDay] = n]
    /\ unwritable = {}
    /\ \/ /\ \E raw \in SeqsUpTo(RawEvents, MaxItems) :
                events = ProcessEvents(raw)
          /\ tasks = <<>>
       \/ /\ events = <<>>
          /\ \E raw \in SeqsUpTo(RawTasks, MaxItems) :
                tasks = ProcessTasks(raw)
    /\ target_date = [day |-> TargetDay, minute |-> 785]
    /\ pre = Note
    /\ last_op = "none"
    /\ prev_op = "none"
    /\ runs = 0
    /\ batch = Idle
    /\ procs = NoProcs
    /\ NoClient
    /\ obsidian_root = VaultRoot
    /\ NoMail

NextTitles == ExportEvents \/ ExportTasks

SpecTitles == InitTitles /\ [][NextTitles]_vars

(***************************************************************************)
(* Two export runs on one note file.  A run reads the file                 *)
(* (note_file.exists / read_text), computes the new content, and writes it *)
(* (write_text); nothing orders the steps of one run against the other's.   *)
(***************************************************************************)
ExportRuns == {"calendar", "tasks"}

NotStarted == [pc |-> "start", exists |-> FALSE, text |-> <<>>, seen |-> 0]

\* the number of runs that have written the file
Written == Cardinality({q \in ExportRuns : procs[q].pc = "done"})

\* a run that takes the file as it is when the run writes
Race_existing_at_write(p) == [exists |-> Note.exists, text |-> Note.text]

\* existing_content of run p when it builds the content it writes: what it
\* read
Race_existing(p) == [exists |-> procs[p].exists, text |-> procs[p].text]

\* full_content / new_content of a run over the file it holds
Race_content(p, file) ==
    IF p = "calendar"
    THEN Cal_export_events_to_daily(file.exists, file.text, events, target_date)
    ELSE Task_export_tasks_to_daily(file.exists, file.text, tasks, target_date)

\* the longest list either run of a race exports
MaxRaceItems == 1

InitRace ==
    /\ \E n \in {Absent} \cup {File(t) : t \in PlainNotes \cup MixedNotes} :
          vault = [EmptyVault EXCEPT ![TargetDay] = n]
    /\ unwritable = {}
    /\ events \in Windows(EventStream, MaxRaceItems)
    /\ tasks \in Windows(TaskStream, MaxRaceItems)
    /\ target_date = [day |-> TargetDay, minute |-> 785]
    /\ pre = Note
    /\ last_op = "none"
    /\ prev_op = "none"
    /\ runs = 0
    /\ batch = Idle
    /\ procs = [p \in ExportRuns |-> NotStarted]
    /\ NoClient
    /\ obsidian_root = VaultRoot
    /\ NoMail

\* "if note_file.exists(): existing_content = note_file.read_text()"
RaceRead ==
    \E p \in ExportRuns :
        /\ procs[p].pc = "start"
        /\ procs' = [procs EXCEPT ![p] = [pc |-> "read", exists |-> Note.exists,
                                          text |-> Note.text, seen |-> Written]]
        /\ UNCHANGED <<exportVars, clientVars, obsidian_root, mail>>

\* the rest of the export, up to note_file.write_text(full_content)
RaceWrite ==
    \E p \in ExportRuns :
        /\ procs[p].pc = "read"
        /\ ~Raises(IF p = "tasks" THEN "task" ELSE p, target_date)
        /\ vault' = [vault EXCEPT ![target_date.day] =
                        File(Race_content(p, Race_existing(p)))]
        /\ pre' = Note
        /\ prev_op' = last_op
        /\ last_op' = p
        /\ runs' = runs + 1
        /\ procs' = [procs EXCEPT ![p].pc = "done"]
        /\ UNCHANGED <<unwritable, events, tasks, target_date, batch, clientVars, obsidian_root, mail>>

NextRace == RaceRead \/ RaceWrite

SpecRace == InitRace /\ [][NextRace]_vars

(***************************************************************************)
(* TaskClient (task_client.py) over the Tasks API service                  *)
(***************************************************************************)
PyTrue == <<"True">>
PyFalse == <<"False">>
NeedsAction == <<"needsAction">>
Completed == <<"completed">>
NoTaskLists == <<"ValueError", "No task lists found">>
NotFound == <<"HttpError", "404">>

\* a datetime parameter left at None
NoDatetime == [day |-> 0, minute |-> 0]

UpperCase == <<"A","B","C","D","E","F","G","H","I","J","K","L","M",
               "N","O","P","Q","R","S","T","U","V","W","X","Y","Z">>
LowerCase == <<"a","b","c","d","e","f","g","h","i","j","k","l","m",
               "n","o","p","q","r","s","t","u","v","w","x","y","z">>

\* str.lower()
lower(s) ==
    [i \in 1..Len(s) |->
        IF \E k \in 1..Len(UpperCase) : UpperCase[k] = s[i]
        THEN LowerCase[CHOOSE k \in 1..Len(UpperCase) : UpperCase[k] = s[i]]
        ELSE s[i]]

\* a in b, for strings
In(a, b) == find(b, a, 0) # -1

TwoDigits(n) == <<Digits[(n \div 10) + 1], Digits[(n % 10) + 1]>>

\* datetime.isoformat() of a naive datetime on a whole minute
isoformat(date) ==
    strftime(date) \o <<"T">> \o TwoDigits(date.minute \div 60) \o <<":">>
    \o TwoDigits(date.minute % 60) \o <<":", "0", "0">>

\* datetime.now(UTC).isoformat().replace("+00:00", "Z") on a whole minute
NowStamp(date) == isoformat(date) \o <<"Z">>

\* response.get(key, default) on a response of the service
GetKey(response, key, default) ==
    IF key \in DOMAIN response THEN response[key] ELSE default

\* one request on a resource of the service
Request(resource, method, kwargs) ==
    [resource |-> resource, method |-> method, kwargs |-> kwargs]

\* self.service.tasklists().list(maxResults=1)
TasklistsList == Request("tasklists", "list", [maxResults |-> 1])

\* the service as the client sees it: a task store that answers get, list,
\* insert, update and delete on the default task list
Api_index(task_id) ==
    LET hits == {i \in 1..Len(store) : store[i].id = task_id}
    IN  IF hits = {} THEN 0 ELSE Min(hits)

Api_list ==
    IF store = <<>> THEN [kind |-> "tasks#tasks"]
    ELSE [kind |-> "tasks#tasks", items |-> store]

Api_insert(body, new_id) ==
    [id |-> new_id, title |-> body.title, notes |-> body.notes, due |-> body.due,
     status |-> NeedsAction, completed |-> Missing, updated |-> Missing,
     etag |-> <<"e0">>]

Api_update(task_id, body) == [store EXCEPT ![Api_index(task_id)] = body]

Api_delete(task_id) ==
    SelectSeq(store, LAMBDA t : t.id # task_id)

\* what one operation did: the requests it sent, the store it left, what it
\* raised or returned, and the task as it fetched it
Outcome(requests, new_store, raised, value, existing_task) ==
    [requests |-> requests, store |-> new_store, raised |-> raised, value |-> value,
     existing_task |-> existing_task]

\* _get_default_tasklist_id that falls back to the "@default" list
Client_get_default_tasklist_id_fallback ==
    LET items == GetKey(tasklists, "items", <<>>)
    IN  IF items = <<>>
        THEN [raised |-> None, value |-> <<"@default">>]
        ELSE [raised |-> None, value |-> items[1].id]

\* TaskClient._get_default_tasklist_id
Client_get_default_tasklist_id ==
    LET items == GetKey(tasklists, "items", <<>>)
    IN  IF items = <<>>
        THEN [raised |-> NoTaskLists, value |-> None]
        ELSE [raised |-> None, value |-> items[1].id]

\* the operation ends in _get_default_tasklist_id
NoList(raised) == Outcome(<<TasklistsList>>, store, raised, None, None)

\* list_tasks: the showCompleted / showHidden request parameters
Client_completed_params(completed) ==
    IF completed = PyTrue
    THEN [showCompleted |-> PyTrue, showHidden |-> PyTrue]
    ELSE IF completed = PyFalse
         THEN [showCompleted |-> PyFalse, showHidden |-> Missing]
         ELSE [showCompleted |-> Missing, showHidden |-> Missing]

\* the query filter that looks at the title only
Client_query_keeps_title_only(processed, query) ==
    \/ ~Truthy(query)
    \/ In(lower(query), lower(PyOr(processed.title, <<>>)))

\* list_tasks: the client-side query filter keeps the task
Client_query_keeps(processed, query) ==
    \/ ~Truthy(query)
    \/ LET query_lower == lower(query)
           title == lower(PyOr(processed.title, <<>>))
           notes == lower(PyOr(processed.notes, <<>>))
       IN  ~(~In(query_lower, title) /\ ~In(query_lower, notes))

\* TaskClient.list_tasks
Client_list_tasks(completed, due_min, due_max, query, max_results) ==
    LET tasklist_id == Client_get_default_tasklist_id
        shown == Client_completed_params(completed)
        request_params ==
            [tasklist |-> tasklist_id.value,
             maxResults |-> max_results,
             showCompleted |-> shown.showCompleted,
             showHidden |-> shown.showHidden,
             dueMin |-> IF due_min # NoDatetime THEN isoformat(due_min) \o <<"Z">>
                        ELSE Missing,
             dueMax |-> IF due_max # NoDatetime THEN isoformat(due_max) \o <<"Z">>
                        ELSE Missing]
        tasks_result == Api_list
        items == GetKey(tasks_result, "items", <<>>)
        processed_tasks ==
            SelectSeq(ProcessTasks(items),
                      LAMBDA processed : Client_query_keeps(processed, query))
    IN  IF tasklist_id.raised # None THEN NoList(tasklist_id.raised)
        ELSE Outcome(<<TasklistsList, Request("tasks", "list", request_params)>>,
                     store, None, processed_tasks, None)

\* TaskClient.get_task
Client_get_task(task_id) ==
    LET tasklist_id == Client_get_default_tasklist_id
        get == Request("tasks", "get", [tasklist |-> tasklist_id.value, task |-> task_id])
    IN  IF tasklist_id.raised # None THEN NoList(tasklist_id.raised)
        ELSE IF Api_index(task_id) = 0
        THEN Outcome(<<TasklistsList, get>>, store, NotFound, None, None)
        ELSE Outcome(<<TasklistsList, get>>, store, None,
                     Task_process_task(store[Api_index(task_id)]),
                     store[Api_index(task_id)])

\* TaskClient.create_task
Client_create_task(title, notes, due, new_id) ==
    LET tasklist_id == Client_get_default_tasklist_id
        task_body ==
            [title |-> title,
             notes |-> IF Truthy(notes) THEN notes ELSE Missing,
             due |-> IF due # NoDatetime THEN IsoDue(due.day) ELSE Missing]
        created_task == Api_insert(task_body, new_id)
    IN  IF tasklist_id.raised # None THEN NoList(tasklist_id.raised)
        ELSE Outcome(<<TasklistsList,
                       Request("tasks", "insert",
                               [tasklist |-> tasklist_id.value, body |-> task_body])>>,
                     <<created_task>> \o store, None,
                     Task_process_task(created_task), None)

\* tasks().get(...).execute() for a task the service holds
Api_get(task_id) == store[Api_index(task_id)]

\* the common shape of update_task, complete_task and uncomplete_task: fetch
\* the task, change it to existing_task, send that back
Client_fetch_and_update(task_id, existing_task) ==
    LET tasklist_id == Client_get_default_tasklist_id
        get == Request("tasks", "get", [tasklist |-> tasklist_id.value, task |-> task_id])
    IN  IF tasklist_id.raised # None THEN NoList(tasklist_id.raised)
        ELSE IF Api_index(task_id) = 0
        THEN Outcome(<<TasklistsList, get>>, store, NotFound, None, None)
        ELSE LET fetched == Api_get(task_id)
                 update == Request("tasks", "update",
                                   [tasklist |-> tasklist_id.value, task |-> task_id,
                                    body |-> existing_task])
                 updated_task == existing_task
             IN  Outcome(<<TasklistsList, get, update>>,
                         Api_update(task_id, existing_task), None,
                         Task_process_task(updated_task), fetched)

\* update_task that takes an empty title or empty notes as "not given"
Client_update_task_truthy(task_id, title, notes, due) ==
    Client_fetch_and_update(task_id,
        [Api_get(task_id) EXCEPT !.title = IF Truthy(title) THEN title ELSE @,
                                 !.notes = IF Truthy(notes) THEN notes ELSE @,
                                 !.due = IF due # NoDatetime THEN IsoDue(due.day) ELSE @])

\* TaskClient.update_task
Client_update_task(task_id, title, notes, due) ==
    Client_fetch_and_update(task_id,
        [Api_get(task_id) EXCEPT !.title = IF title # None THEN title ELSE @,
                                 !.notes = IF notes # None THEN notes ELSE @,
                                 !.due = IF due # NoDatetime THEN IsoDue(due.day) ELSE @])

\* TaskClient.complete_task
Client_complete_task(task_id, now) ==
    Client_fetch_and_update(task_id,
        [Api_get(task_id) EXCEPT !.status = Completed, !.completed = NowStamp(now)])

\* uncomplete_task that leaves the "completed" key in the body
Client_uncomplete_task_keeps_completed(task_id) ==
    Client_fetch_and_update(task_id, [Api_get(task_id) EXCEPT !.status = NeedsAction])

\* TaskClient.uncomplete_task
Client_uncomplete_task(task_id) ==
    Client_fetch_and_update(task_id,
        [Api_get(task_id) EXCEPT !.status = NeedsAction, !.completed = Missing])

\* TaskClient.delete_task
Client_delete_task(task_id) ==
    LET tasklist_id == Client_get_default_tasklist_id
    IN  IF tasklist_id.raised # None THEN NoList(tasklist_id.raised)
        ELSE IF Api_index(task_id) = 0
        THEN Outcome(<<TasklistsList,
                       Request("tasks", "delete",
                               [tasklist |-> tasklist_id.value, task |-> task_id])>>,
                     store, NotFound, None, None)
        ELSE Outcome(<<TasklistsList,
                       Request("tasks", "delete",
                               [tasklist |-> tasklist_id.value, task |-> task_id])>>,
                     Api_delete(task_id), None, None, None)

\* the number of operations run, and the number of tasks the account starts with
MaxOps == 2
MaxStore == 2

\* responses of tasklists().list: no "items" key, no list, the lists
TasklistResponses ==
    { [kind |-> "tasks#taskLists"],
      [kind |-> "tasks#taskLists", items |-> <<>>],
      [kind |-> "tasks#taskLists", items |-> << [id |-> <<"L1">>] >>] }

StampT0 == IsoDateTime(TargetDay, T0900)

\* tasks as the service holds them
StoreStream ==
    << [id |-> <<"t1">>, title |-> TitleA, notes |-> Missing, due |-> Missing,
        status |-> NeedsAction, completed |-> Missing, updated |-> StampT0,
        etag |-> <<"e1">>],
       [id |-> <<"t2">>, title |-> <<"A", "b">>, notes |-> <<"x", "A">>,
        due |-> IsoDue(TargetDay), status |-> Completed, completed |-> StampT0,
        updated |-> StampT0, etag |-> <<"e2">>],
       [id |-> <<"t3">>, title |-> Missing, notes |-> TitleB, due |-> Missing,
        status |-> NeedsAction, completed |-> Missing, updated |-> Missing,
        etag |-> <<"e3">>],
       [id |-> <<"t4">>, title |-> <<>>, notes |-> <<"B", "a">>, due |-> Missing,
        status |-> Completed, completed |-> StampT0, updated |-> StampT0,
        etag |-> <<"e4">>] >>

UnknownId == <<"t9">>

\* the task ids the operations are called with: the first and the last task
\* of the service, and an unknown one
TaskIds == {store[i].id : i \in {1, Len(store)} \cap DOMAIN store} \cup {UnknownId}

Noon == [day |-> TargetDay, minute |-> 720]

\* arguments of list_tasks
ListArgs ==
    { [completed |-> a[1], due_min |-> NoDatetime, due_max |-> NoDatetime,
       query |-> a[2], max_results |-> 100] :
        a \in { <<None, None>>, <<PyTrue, None>>, <<PyFalse, None>>,
                <<None, <<>> >>, <<PyTrue, <<"A">> >>, <<PyFalse, TitleB>> } }
    \cup { [completed |-> PyFalse, due_min |-> Noon, due_max |-> NoDatetime,
            query |-> <<"n", "o">>, max_results |-> 50],
           [completed |-> None, due_min |-> NoDatetime, due_max |-> Noon,
            query |-> <<"z">>, max_results |-> 50] }

\* arguments of create_task and update_task
EditArgs ==
    { [title |-> TitleB, notes |-> <<>>, due |-> Noon],
      [title |-> None, notes |-> <<"n">>, due |-> NoDatetime] }

InitClient ==
    /\ vault = EmptyVault
    /\ unwritable = {}
    /\ events = <<>>
    /\ tasks = <<>>
    /\ target_date = [day |-> TargetDay, minute |-> 785]
    /\ pre = Absent
    /\ last_op = "none"
    /\ prev_op = "none"
    /\ runs = 0
    /\ batch = Idle
    /\ procs = NoProcs
    /\ tasklists \in TasklistResponses
    /\ store \in Windows(StoreStream, MaxStore)
    /\ calls = <<>>
    /\ result = <<>>
    /\ obsidian_root = VaultRoot
    /\ NoMail

\* one operation of the client, from its call to its return or raise
Run(op, args, out) ==
    /\ Len(result) < MaxOps
    /\ calls' = calls \o out.requests
    /\ store' = out.store
    /\ result' = Append(result, [op |-> op, args |-> args, requests |-> out.requests,
                                 raised |-> out.raised, value |-> out.value,
                                 existing_task |-> out.existing_task,
                                 store |-> out.store])
    /\ UNCHANGED <<exportVars, procs, tasklists, obsidian_root, mail>>

ListTasks ==
    \E a \in ListArgs :
        Run("list_tasks", a,
            Client_list_tasks(a.completed, a.due_min, a.due_max, a.query, a.max_results))

GetTask ==
    \E task_id \in TaskIds :
        Run("get_task", [task_id |-> task_id], Client_get_task(task_id))

CreateTask ==
    \E a \in {e \in EditArgs : e.title # None} :
        Run("create_task", a,
            Client_create_task(a.title, a.notes, a.due, <<"n", Digits[Len(result) + 1]>>))

UpdateTask ==
    \E task_id \in TaskIds, a \in EditArgs :
        Run("update_task", [task_id |-> task_id, edit |-> a],
            Client_update_task(task_id, a.title, a.notes, a.due))

CompleteTask ==
    \E task_id \in TaskIds :
        Run("complete_task", [task_id |-> task_id],
            Client_complete_task(task_id, [day |-> TargetDay, minute |-> 600 + Len(result)]))

UncompleteTask ==
    \E task_id \in TaskIds :
        Run("uncomplete_task", [task_id |-> task_id], Client_uncomplete_task(task_id))

DeleteTask ==
    \E task_id \in TaskIds :
        Run("delete_task", [task_id |-> task_id], Client_delete_task(task_id))

NextClient ==
    \/ ListTasks
    \/ GetTask
    \/ CreateTask
    \/ UpdateTask
    \/ CompleteTask
    \/ UncompleteTask
    \/ DeleteTask

SpecClient == InitClient /\ [][NextClient]_vars

(***************************************************************************)
(* Exports of both exporters to one note, one after the other, starting    *)
(* from no file, with the user checking items in the file between runs     *)
(***************************************************************************)
\* the longest task list of these runs, and the number of runs
MaxEditTasks == 1
MaxEditRuns == 3

\* the positions where a line "- [ ] ..." starts in a text
UncheckedAt(text) ==
    {i \in 1..Len(text) :
        /\ i = 1 \/ text[i - 1] = NL
        /\ i + 5 <= Len(text)
        /\ SubSeq(text, i, i + 5) = <<"-", SP, "[", SP, "]", SP>>}

InitEdits ==
    /\ vault = EmptyVault
    /\ unwritable = {}
    /\ events \in Windows(<<EventStream[8], EventStream[1], EventStream[4]>>, MaxItems)
    /\ tasks \in Windows(<<TaskStream[1], TaskStream[4], TaskStream[6]>>, MaxEditTasks)
    /\ target_date = [day |-> TargetDay, minute |-> 785]
    /\ pre = Note
    /\ last_op = "none"
    /\ prev_op = "none"
    /\ runs = 0
    /\ batch = Idle
    /\ procs = NoProcs
    /\ NoClient
    /\ obsidian_root = VaultRoot
    /\ NoMail

\* the user ticks one unchecked box of the note in the editor
UserCheck ==
    /\ Note.exists
    /\ last_op # "user"
    /\ runs < MaxEditRuns
    /\ \E i \in UncheckedAt(Note.text) :
          vault' = [vault EXCEPT ![target_date.day] =
                       File([Note.text EXCEPT ![i + 3] = "x"])]
    /\ prev_op' = last_op
    /\ last_op' = "user"
    /\ UNCHANGED <<unwritable, events, tasks, target_date, pre, runs, batch>>
    /\ UNCHANGED <<procs, clientVars, obsidian_root, mail>>

EditsExportEvents == ExportEventsUpTo(MaxEditRuns)

EditsExportTasks == ExportTasksUpTo(MaxEditRuns)

NextEdits == EditsExportEvents \/ EditsExportTasks \/ UserCheck

SpecEdits == InitEdits /\ [][NextEdits]_vars

(***************************************************************************)
(* Build then parse: the section a run builds, read back by the parser of  *)
(* the next run.  The items are any the clients can hand over (an empty    *)
(* title, a title with " @ ", notes with lines that look like a checklist  *)
(* line or a heading); the checked map is the one read from the prior note.*)
(***************************************************************************)
RoundTripEvents ==
    { TimedEvent(TitleA, None, T0900, T1000),
      TimedEvent(TitleA, LocZ, T0900, T1000),
      TimedEvent(TitleAat, LocZ, T0900, T1000),
      TimedEvent(TitleB, None, T0900, T1000),
      TimedEvent(<<>>, None, T0900, T1000),
      AllDayEvent(TitleA, None) }

RoundTripTasks ==
    { Task(TitleA, None, None),
      Task(TitleA, IsoDue(TargetDay), <<"#", "#", SP, "N">>),
      Task(TitleB, IsoDue(TargetDay + 1), NotesText),
      Task(TitleB, IsoDue(TargetDay + 8), None),
      Task(<<>>, None, None) }

RoundTripNotes ==
    {Absent}
    \cup {File(t) : t \in SectionNotes(H2Calendar, CalendarOldLines)}
    \cup {File(t) : t \in SectionNotes(H2Tasks, TasksOldLines)}

InitRoundTrip ==
    /\ \E n \in RoundTripNotes : vault = [EmptyVault EXCEPT ![TargetDay] = n]
    /\ unwritable = {}
    /\ \/ events \in SeqsUpTo(RoundTripEvents, MaxItems) /\ tasks = <<>>
       \/ events = <<>> /\ tasks \in SeqsUpTo(RoundTripTasks, MaxItems)
    /\ target_date = [day |-> TargetDay, minute |-> 785]
    /\ pre = Note
    /\ last_op = "none"
    /\ prev_op = "none"
    /\ runs = 0
    /\ batch = Idle
    /\ procs = NoProcs
    /\ NoClient
    /\ obsidian_root = VaultRoot
    /\ NoMail

NextRoundTrip == ExportEvents \/ ExportTasks

SpecRoundTrip == InitRoundTrip /\ [][NextRoundTrip]_vars

(***************************************************************************)
(* The parsers on the lines a user's section may hold: checklist lines,    *)
(* the same lines indented, blank lines, ### headings, a capital X.        *)
(***************************************************************************)
SectionLinePool(text, other) ==
    { CheckLine("x", text),
      CheckLine(SP, text),
      <<SP, SP>> \o CheckLine("x", text),
      <<SP, SP>> \o CheckLine("x", other),
      <<"-", SP, "[", "X", "]", SP>> \o other,
      SectionTitles.today,
      <<>> }

LineNotes(heading, text, other) ==
    { join(<<heading>> \o body) \o <<NL>> :
        body \in SeqsUpTo(SectionLinePool(text, other), MaxOldLines) }

InitLines ==
    /\ \E t \in LineNotes(H2Calendar, SlotA, SlotB) \cup LineNotes(H2Tasks, TitleA, TitleB) :
          vault = [EmptyVault EXCEPT ![TargetDay] = File(t)]
    /\ unwritable = {}
    /\ events \in {<<EventStream[1]>>, <<EventStream[4]>>}
    /\ tasks \in {<<TaskStream[1]>>, <<TaskStream[5]>>}
    /\ target_date = [day |-> TargetDay, minute |-> 785]
    /\ pre = Note
    /\ last_op = "none"
    /\ prev_op = "none"
    /\ runs = 0
    /\ batch = Idle
    /\ procs = NoProcs
    /\ NoClient
    /\ obsidian_root = VaultRoot
    /\ NoMail

NextLines == ExportEvents \/ ExportTasks

SpecLines == InitLines /\ [][NextLines]_vars

(***************************************************************************)
(* The path of the daily note.  A path is the sequence of its parts, as    *)
(* pathlib keeps it; the file system of this specification maps paths to   *)
(* files.                                                                  *)
(***************************************************************************)
Slash == "/"
Tilde == "~"
DailyDir == <<"d","a","i","l","y">>
MdSuffix == <<".","m","d">>

\* Path.home()
Home == << <<Slash>>, <<"h">> >>

\* Path(s): the root "/" if s starts with it, then the parts between slashes
Path(s) ==
    (IF s # <<>> /\ s[1] = Slash THEN << <<Slash>> >> ELSE <<>>)
    \o SelectSeq(split(s, <<Slash>>), LAMBDA part : part # <<>>)

\* Path.expanduser(): a relative path whose first part is "~" starts at the
\* home directory
expanduser(path) ==
    IF path # <<>> /\ path[1] = <<Tilde>> THEN Home \o Tail(path) ELSE path

\* root / "daily" / year / year_month / f"{date_str}.md"
DailyNoteUnder(root, date) ==
    root \o << DailyDir, SubSeq(strftime(date), 1, 4), SubSeq(strftime(date), 1, 7),
               strftime(date) \o MdSuffix >>

\* ObsidianCalendarExporter: self.daily_root / year / year_month / file
Cal_note_file(root_string, target) ==
    DailyNoteUnder(expanduser(Path(root_string)), target)

\* ObsidianTaskExporter._get_daily_note_path
Task_get_daily_note_path(root_string, date) ==
    DailyNoteUnder(Path(root_string), date)

\* vault root strings: absolute, relative, under the home directory
Roots == { <<Slash, "v">>, <<"v">>, <<Tilde, Slash, "v">>, <<"w", Slash, "v">> }

\* target datetimes: the days of the range at midnight, midday, 23:59
PathDates == { [day |-> TargetDay + k, minute |-> m] : k \in 0..(MaxDates - 1),
                                                        m \in {0, 785, 1439} }

NotePaths ==
    { Cal_note_file(r, d) : r \in Roots, d \in PathDates }
    \cup { Task_get_daily_note_path(r, d) : r \in Roots, d \in PathDates }

InitPaths ==
    /\ vault = [p \in NotePaths |-> Absent]
    /\ unwritable = {}
    /\ events \in Windows(EventStream, MaxRaceItems)
    /\ tasks \in Windows(TaskStream, MaxRaceItems)
    /\ target_date \in PathDates
    /\ pre = Absent
    /\ last_op = "none"
    /\ prev_op = "none"
    /\ runs = 0
    /\ batch = Idle
    /\ procs = NoProcs
    /\ NoClient
    /\ obsidian_root \in Roots
    /\ NoMail

\* export_events_to_daily(events, date) of an exporter made for obsidian_root
PathExportEvents ==
    /\ runs < MaxRuns
    /\ \E date \in PathDates :
          LET note_file == Cal_note_file(obsidian_root, date)
          IN  /\ vault' = [vault EXCEPT ![note_file] =
                    File(Cal_export_events_to_daily(vault[note_file].exists,
                                                    vault[note_file].text, events, date))]
              /\ pre' = vault[note_file]
              /\ target_date' = date
    /\ prev_op' = last_op
    /\ last_op' = "calendar"
    /\ runs' = runs + 1
    /\ UNCHANGED <<unwritable, events, tasks, batch>>
    /\ UNCHANGED <<procs, clientVars, obsidian_root, mail>>

\* export_tasks_to_daily(tasks, date) of an exporter made for obsidian_root
PathExportTasks ==
    /\ runs < MaxRuns
    /\ \E date \in PathDates :
          LET note_path == Task_get_daily_note_path(obsidian_root, date)
          IN  /\ ~Task_categorize_raises(tasks, date)
              /\ vault' = [vault EXCEPT ![note_path] =
                    File(Task_export_tasks_to_daily(vault[note_path].exists,
                                                    vault[note_path].text, tasks, date))]
              /\ pre' = vault[note_path]
              /\ target_date' = date
    /\ prev_op' = last_op
    /\ last_op' = "tasks"
    /\ runs' = runs + 1
    /\ UNCHANGED <<unwritable, events, tasks, batch>>
    /\ UNCHANGED <<procs, clientVars, obsidian_root, mail>>

NextPaths == PathExportEvents \/ PathExportTasks

SpecPaths == InitPaths /\ [][NextPaths]_vars

(***************************************************************************)
(* The task exporter over tasks in either remote state, as list_tasks      *)
(* hands them over (TaskClient._process_task)                              *)
(***************************************************************************)
\* the remote states of a task: open, or completed with its time
RemoteStates ==
    { [status |-> NeedsAction, completed |-> None],
      [status |-> Completed, completed |-> StampT0] }

StatusTask(title, due, remote) ==
    [id |-> <<"t">>, title |-> title, notes |-> None, due |-> due,
     status |-> remote.status, completed |-> remote.completed, updated |-> StampT0]

StatusTasks ==
    { StatusTask(title, due, remote) :
        title \in {TitleA, TitleB}, due \in {None, IsoDue(TargetDay)},
        remote \in RemoteStates }

\* the task lists of the runs: windows of one stream of the tasks above, a
\* task completed remotely beside an open one
StatusStream ==
    << StatusTask(TitleA, None, [status |-> Completed, completed |-> StampT0]),
       StatusTask(TitleB, None, [status |-> NeedsAction, completed |-> None]),
       StatusTask(TitleA, IsoDue(TargetDay), [status |-> NeedsAction, completed |-> None]),
       StatusTask(TitleB, IsoDue(TargetDay), [status |-> Completed, completed |-> StampT0]),
       StatusTask(TitleA, None, [status |-> NeedsAction, completed |-> None]) >>

InitStatus ==
    /\ \E n \in {Absent} \cup {File(t) : t \in SectionNotes(H2Tasks, TasksOldLines)} :
          vault = [EmptyVault EXCEPT ![TargetDay] = n]
    /\ unwritable = {}
    /\ events = <<>>
    /\ tasks \in Windows(StatusStream, MaxItems)
    /\ target_date = [day |-> TargetDay, minute |-> 785]
    /\ pre = Note
    /\ last_op = "none"
    /\ prev_op = "none"
    /\ runs = 0
    /\ batch = Idle
    /\ procs = NoProcs
    /\ NoClient
    /\ obsidian_root = VaultRoot
    /\ NoMail

NextStatus == ExportTasks

SpecStatus == InitStatus /\ [][NextStatus]_vars

(***************************************************************************)
(* One export, statement by statement: the read of the existing note, the  *)
(* computation of the new content (parse, categorize, build, merge), the   *)
(* write.  A statement that raises ends the run: neither exporter catches  *)
(* anything.  Runs follow one another; after a raise the command exits.    *)
(***************************************************************************)
\* the statements of an export with the write ahead of the computation
Export_steps_write_first == <<"read", "write", "build">>

\* the statements of export_events_to_daily / export_tasks_to_daily, in the
\* order of the code
Export_steps == <<"read", "build", "write">>

NoError == <<"none">>
OSError == <<"OSError">>
ValueError == <<"ValueError">>

\* a run before its first statement
StepStart == [at |-> 1, exists |-> FALSE, text |-> <<>>, content |-> <<>>,
              error |-> NoError, before |-> Absent]

\* the statement a run is at, "return" after the last one
StepOf(p) == IF procs[p].at <= Len(Export_steps) THEN Export_steps[procs[p].at]
             ELSE "return"

RunRaised(p) == procs[p].error # NoError
RunReturned(p) == ~RunRaised(p) /\ procs[p].at > Len(Export_steps)

\* run p may take a statement: no run has raised, the other run is not
\* between its first statement and its return
MayStep(p) ==
    /\ \A q \in ExportRuns : ~RunRaised(q)
    /\ \A q \in ExportRuns \ {p} : procs[q].at = 1 \/ RunReturned(q)

\* a due string that is no date
BadDue == <<"s", "o", "o", "n">>

InitSteps ==
    /\ \E n \in {Absent} \cup {File(t) : t \in PlainNotes \cup MixedNotes} :
          vault = [EmptyVault EXCEPT ![TargetDay] = n]
    /\ unwritable = {}
    /\ events \in Windows(EventStream, MaxRaceItems)
    /\ tasks \in Windows(TaskStream, MaxRaceItems) \cup {<<Task(TitleA, BadDue, None)>>}
    /\ target_date = [day |-> TargetDay, minute |-> 785]
    /\ pre = Note
    /\ last_op = "none"
    /\ prev_op = "none"
    /\ runs = 0
    /\ batch = Idle
    /\ procs = [p \in ExportRuns |-> StepStart]
    /\ NoClient
    /\ obsidian_root = VaultRoot
    /\ NoMail

\* "if note_path.exists(): existing_content = note_path.read_text()"
StepRead ==
    \E p \in ExportRuns :
        /\ MayStep(p)
        /\ StepOf(p) = "read"
        /\ procs' = [procs EXCEPT ![p].exists = Note.exists,
                                  ![p].text = IF Note.exists THEN Note.text ELSE <<>>,
                                  ![p].before = IF procs[p].at = 1 THEN Note ELSE @,
                                  ![p].at = @ + 1]
        /\ UNCHANGED <<exportVars, clientVars, obsidian_root, mail>>

\* read_text raises (the file cannot be read or decoded)
StepReadFails ==
    \E p \in ExportRuns :
        /\ MayStep(p)
        /\ StepOf(p) = "read"
        /\ Note.exists
        /\ procs' = [procs EXCEPT ![p].error = OSError,
                                  ![p].before = IF procs[p].at = 1 THEN Note ELSE @]
        /\ UNCHANGED <<exportVars, clientVars, obsidian_root, mail>>

\* _parse_checked_items .. _merge_content / _replace_calendar_section:
\* strptime raises ValueError on a due string that is no date
StepBuild ==
    \E p \in ExportRuns :
        /\ MayStep(p)
        /\ StepOf(p) = "build"
        /\ procs' = IF p = "tasks" /\ Task_categorize_raises(tasks, target_date)
                    THEN [procs EXCEPT ![p].error = ValueError]
                    ELSE [procs EXCEPT
                            ![p].content = Race_content(p, [exists |-> procs[p].exists,
                                                            text |-> procs[p].text]),
                            ![p].at = @ + 1]
        /\ UNCHANGED <<exportVars, clientVars, obsidian_root, mail>>

\* note_path.write_text(new_content)
StepWrite ==
    \E p \in ExportRuns :
        /\ MayStep(p)
        /\ StepOf(p) = "write"
        /\ vault' = [vault EXCEPT ![target_date.day] = File(procs[p].content)]
        /\ pre' = Note
        /\ prev_op' = last_op
        /\ last_op' = p
        /\ runs' = runs + 1
        /\ procs' = [procs EXCEPT ![p].at = @ + 1]
        /\ UNCHANGED <<unwritable, events, tasks, target_date, batch, clientVars, obsidian_root, mail>>

NextSteps == StepRead \/ StepReadFails \/ StepBuild \/ StepWrite

SpecSteps == InitSteps /\ [][NextSteps]_vars

(***************************************************************************)
(* ObsidianExporter (obsidian_exporter.py): the export of an email thread  *)
(* to one note file.  The messages have no cc, no labels, no attachments.  *)
(***************************************************************************)
FrontmatterFence == <<"-", "-", "-">>
MessageIdKey == <<"m", "e", "s", "s", "a", "g", "e", "_", "i", "d", ":">>
MessageIdLabel == <<"M", "e", "s", "s", "a", "g", "e", " ", "I", "D", ":">>
\* the grave accent character
Backtick == "GRAVE"
Quote == "\""

\* _escape_yaml: a double quote gets a backslash in front, a newline becomes
\* a blank, a carriage return is dropped
RECURSIVE Mail_escape_yaml(_)
Mail_escape_yaml(text) ==
    IF text = <<>> THEN <<>>
    ELSE (IF text[1] = Quote THEN <<"\\", Quote>>
          ELSE IF text[1] = NL THEN <<SP>>
          ELSE IF text[1] = "\r" THEN <<>>
          ELSE <<text[1]>>)
         \o Mail_escape_yaml(Tail(text))

\* the maximal run of non-whitespace characters from offset q: its end
NonSpaceRunEnd(s, q) ==
    Min({Len(s)} \cup {r \in q..(Len(s) - 1) : s[r + 1] \in Whitespace})

\* re.findall(r"message_id:\s*(\S+)", content)
Mail_findall_message_id(content) ==
    { Slice(content, WsRunEnd(content, p + Len(MessageIdKey)),
            NonSpaceRunEnd(content, WsRunEnd(content, p + Len(MessageIdKey)))) :
        p \in { p \in 0..Len(content) :
                  /\ StartsWithAt(content, p, MessageIdKey)
                  /\ WsRunEnd(content, p + Len(MessageIdKey)) < Len(content) } }

\* re.findall of Message ID:\s*, a grave accent, (\S+), a grave accent:
\* after the label and the whitespace a grave accent, then the longest run of non-whitespace that still
\* ends before a backtick
Mail_findall_message_id_label(content) ==
    { Slice(content, m.from, m.to) :
        m \in { [from |-> WsRunEnd(content, p + Len(MessageIdLabel)) + 1,
                 to |-> Max({r \in 0..NonSpaceRunEnd(content,
                                       WsRunEnd(content, p + Len(MessageIdLabel)) + 1) :
                               r >= 1 /\ content[r] = Backtick}) - 1] :
                p \in { p \in 0..Len(content) :
                          /\ StartsWithAt(content, p, MessageIdLabel)
                          /\ WsRunEnd(content, p + Len(MessageIdLabel)) < Len(content)
                          /\ content[WsRunEnd(content, p + Len(MessageIdLabel)) + 1] = Backtick
                          /\ \E r \in (WsRunEnd(content, p + Len(MessageIdLabel)) + 3)
                                      ..NonSpaceRunEnd(content,
                                            WsRunEnd(content, p + Len(MessageIdLabel)) + 1) :
                                content[r] = Backtick } } }

\* _extract_message_ids_from_note
Mail_extract_message_ids_from_note(content) ==
    Mail_findall_message_id(content) \cup Mail_findall_message_id_label(content)

\* _strip_frontmatter
Mail_strip_frontmatter(content) ==
    LET lines == split(content, <<NL>>)
        ends == {i \in 2..Len(lines) : lines[i] = FrontmatterFence}
    IN  IF lines[1] = FrontmatterFence /\ ends # {}
        THEN lstrip(join(SubSeq(lines, Min(ends) + 1, Len(lines))))
        ELSE content

\* str(n) for a count below ten
Str(n) == <<Digits[n + 1]>>

\* _build_frontmatter(messages, [])
Mail_build_frontmatter(messages) ==
    join(<< FrontmatterFence,
            <<"s", "u", "b", "j", "e", "c", "t", ":", " ", "\"">> \o Mail_escape_yaml(messages[1].subject) \o <<Quote>>,
            <<"f", "r", "o", "m", ":", " ", "\"">> \o Mail_escape_yaml(messages[1].from) \o <<Quote>>,
            <<"t", "o", ":", " ", "\"">> \o Mail_escape_yaml(messages[1].to) \o <<Quote>>,
            <<"d", "a", "t", "e", ":", " ", "\"">> \o messages[1].date_iso \o <<Quote>>,
            <<"t", "h", "r", "e", "a", "d", "_", "i", "d", ":", " ", "\"">> \o messages[1].thread_id \o <<Quote>>,
            <<"m", "e", "s", "s", "a", "g", "e", "_", "c", "o", "u", "n", "t", ":", " ">> \o Str(Len(messages)),
            <<"m", "e", "s", "s", "a", "g", "e", "_", "i", "d", "s", ":">> >>
         \o [i \in 1..Len(messages) |-> <<" ", " ", "-", " ", "\"">> \o messages[i].id \o <<Quote>>]
         \o << <<"t", "a", "g", "s", ":">>, <<" ", " ", "-", " ", "e", "m", "a", "i", "l">>, FrontmatterFence >>)

\* _format_message(msg, index, total)
Mail_format_message(msg, index, total) ==
    join(<< <<"#", " ", "M", "e", "s", "s", "a", "g", "e", " ">> \o Str(index) \o <<"/">> \o Str(total),
            <<>>,
            <<"*", "*", "F", "r", "o", "m", ":", "*", "*", " ">> \o msg.from,
            <<"*", "*", "T", "o", ":", "*", "*", " ">> \o msg.to,
            <<"*", "*", "D", "a", "t", "e", ":", "*", "*", " ">> \o msg.date_iso,
            <<"*", "*", "M", "e", "s", "s", "a", "g", "e", " ", "I", "D", ":", "*", "*", " ", Backtick>> \o msg.id \o <<Backtick>>,
            <<>>,
            <<"#", "#", " ", "M", "e", "s", "s", "a", "g", "e", " ", "B", "o", "d", "y">>,
            <<>>,
            msg.body_markdown >>)

MessageSeparator == <<NL, NL, "-", "-", "-", NL, NL>>

\* "\n\n---\n\n".join(messages_content)
RECURSIVE Mail_join_messages(_)
Mail_join_messages(messages_content) ==
    IF messages_content = <<>> THEN <<>>
    ELSE IF Len(messages_content) = 1 THEN messages_content[1]
    ELSE messages_content[1] \o MessageSeparator \o Mail_join_messages(Tail(messages_content))

\* export_thread(messages, {}) over the note file: whether write_text is
\* called, and the content written
Mail_export_thread(messages, file) ==
    LET existing_content == IF file.exists THEN file.text ELSE <<>>
        existing_message_ids == IF file.exists
                                THEN Mail_extract_message_ids_from_note(existing_content)
                                ELSE {}
        new == {i \in 1..Len(messages) : messages[i].id \notin existing_message_ids}
        messages_content ==
            [k \in 1..Cardinality(new) |->
                LET i == CHOOSE i \in new : Cardinality({j \in new : j < i}) = k - 1
                IN  Mail_format_message(messages[i], i, Len(messages))]
        frontmatter == Mail_build_frontmatter(messages)
    IN  IF existing_content = <<>> \/ Cardinality(existing_message_ids) < Len(messages)
        THEN [wrote |-> TRUE,
              content |->
                 IF existing_content # <<>>
                 THEN frontmatter \o <<NL, NL>> \o Mail_strip_frontmatter(existing_content)
                      \o <<NL, NL>> \o Mail_join_messages(messages_content)
                 ELSE frontmatter \o <<NL, NL>> \o Mail_join_messages(messages_content)]
        ELSE [wrote |-> FALSE, content |-> existing_content]

\* the longest thread, and the number of exports of it
MaxMessages == 3
MaxMailRuns == 3

Message(id, body) ==
    [id |-> id, thread_id |-> <<"t">>, from |-> <<"a", "@", "x">>, to |-> <<"b", "@", "x">>,
     subject |-> <<"S", Quote>>, date_iso |-> strftime([day |-> TargetDay, minute |-> 0]),
     body_markdown |-> body]

\* the messages the threads are cut from; one body quotes a message id
MailStream ==
    << Message(<<"m", "1">>, <<"h", "i">>),
       Message(<<"m", "2">>, <<"y", "o">>),
       Message(<<"m", "3">>, MessageIdKey \o <<SP, "m", "1">>),
       Message(<<"m", "4">>, <<>>) >>

\* the thread as the Gmail API holds it, the messages of it fetched so far,
\* the note file, the note file before the last export, whether the last
\* export wrote, the number of messages it was given
InitMail ==
    /\ vault = EmptyVault
    /\ unwritable = {}
    /\ events = <<>>
    /\ tasks = <<>>
    /\ target_date = [day |-> TargetDay, minute |-> 785]
    /\ pre = Absent
    /\ last_op = "none"
    /\ prev_op = "none"
    /\ runs = 0
    /\ batch = Idle
    /\ procs = NoProcs
    /\ NoClient
    /\ obsidian_root = VaultRoot
    /\ \E thread \in Windows(MailStream, MaxMessages) :
          /\ thread # <<>>
          /\ mail = [thread |-> thread, fetched |-> 1, note_file |-> Absent,
                     existing |-> Absent, wrote |-> FALSE, exported |-> 0, runs |-> 0]

\* the messages get_thread returns
MailMessages == SubSeq(mail.thread, 1, mail.fetched)

\* a reply arrives in the thread
MailArrives ==
    /\ mail.fetched < Len(mail.thread)
    /\ mail' = [mail EXCEPT !.fetched = @ + 1]
    /\ UNCHANGED <<exportVars, procs, clientVars, obsidian_root>>

\* export_thread(messages, {})
ExportThread ==
    /\ mail.runs < MaxMailRuns
    /\ LET out == Mail_export_thread(MailMessages, mail.note_file)
       IN  mail' = [mail EXCEPT !.note_file = IF out.wrote THEN File(out.content) ELSE @,
                                !.existing = mail.note_file,
                                !.wrote = out.wrote,
                                !.exported = mail.fetched,
                                !.runs = @ + 1]
    /\ UNCHANGED <<exportVars, procs, clientVars, obsidian_root>>

NextMail == MailArrives \/ ExportThread

SpecMail == InitMail /\ [][NextMail]_vars

(***************************************************************************)
(* Vocabulary of the properties (spec sections 3 and 4)                    *)
(***************************************************************************)
Exported == last_op \in {"calendar", "tasks"}

\* the heading of the section the last export owns
OwnedHeading == IF last_op = "calendar" THEN H2Calendar ELSE H2Tasks

\* the items the last export was given
FetchedItems == IF last_op = "calendar" THEN events ELSE tasks

\* the owned section of a text: from the heading line up to, but excluding,
\* the next line that starts with "## ", or to the end of the text
OwnedSpan(text, heading) ==
    LET m == SearchHeading(text, heading)
        n == IF m.found THEN SearchH2(Slice(text, m.end, Len(text))) ELSE -1
    IN  [found |-> m.found, start |-> m.start,
         end |-> IF n >= 0 THEN m.end + n ELSE Len(text)]

\* the lines of the owned section, the heading line first
OwnedLines(text, heading) ==
    LET sp == OwnedSpan(text, heading)
    IN  IF sp.found THEN split(Slice(text, sp.start, sp.end), <<NL>>) ELSE <<>>

\* a line as the exporter op reads it: the calendar exporter drops the
\* blanks around a line, the task exporter takes the line as it is
ReadLine(op, line) == IF op = "calendar" THEN strip(line) ELSE line

\* the line is a checklist line "- [ ] <text>" or "- [x] <text>"
ItemLine(op, line) ==
    LET l == ReadLine(op, line)
    IN  /\ Len(l) >= 7
        /\ SubSeq(l, 1, 3) = <<"-", SP, "[">>
        /\ l[4] \in {"x", SP}
        /\ SubSeq(l, 5, 6) = <<"]", SP>>

LineChecked(op, line) == ReadLine(op, line)[4] = "x"
LineText(op, line) == SubSeq(ReadLine(op, line), 7, Len(ReadLine(op, line)))

\* the text before the first " @ "
BeforeAt(text) ==
    LET cut == {i \in 1..Len(text) : StartsWithAt(text, i - 1, AtSep)}
    IN  IF cut = {} THEN text
        ELSE SubSeq(text, 1, (CHOOSE i \in cut : \A j \in cut : i <= j) - 1)

\* the signature recovered from the text of a checklist line (spec 4.2)
TextSignature(op, text) ==
    IF op = "calendar" THEN strip(BeforeAt(strip(text))) ELSE strip(text)

LineSignature(op, line) == TextSignature(op, LineText(op, line))

\* the title of an item, with the placeholder of a missing title
Title(raw) == IF raw = Missing THEN NoTitle ELSE raw

\* the signature of an item (spec 3)
EventSignature(e) ==
    IF e.is_all_day THEN AllDayPrefix \o Title(e.summary)
    ELSE SubSeq(e.start, 12, 16) \o <<"-">> \o SubSeq(e.end, 12, 16)
         \o <<SP>> \o Title(e.summary)

TaskSignature(t) ==
    IF Truthy(t.due)
    THEN Title(t.title) \o DuePrefix \o SubSeq(t.due, 1, 10) \o <<")">>
    ELSE Title(t.title)

ItemSignature(op, item) ==
    IF op = "calendar" THEN EventSignature(item) ELSE TaskSignature(item)

\* the text of the checklist line of an item (spec 4.3)
ItemText(op, item) ==
    IF op = "calendar"
    THEN EventSignature(item)
         \o (IF Truthy(item.location) THEN AtSep \o item.location ELSE <<>>)
    ELSE TaskSignature(item)

\* the signature a reader recovers from the line of an item
ShownSignature(op, item) == TextSignature(op, ItemText(op, item))

\* the lines of the owned section before and after the last export
OldLines == OwnedLines(pre.text, OwnedHeading)
NewLines == OwnedLines(Note.text, OwnedHeading)

\* the positions of the checklist lines of signature sig
LinesOf(lines, sig) ==
    {i \in 1..Len(lines) :
        ItemLine(last_op, lines[i]) /\ LineSignature(last_op, lines[i]) = sig}

\* the positions of the lines written for an item
WrittenFor(item) ==
    LET new == NewLines
    IN  {i \in 1..Len(new) :
            /\ ItemLine(last_op, new[i])
            /\ LineText(last_op, new[i]) = ItemText(last_op, item)}

\* the marks of the lines written for an item: TRUE for [x], FALSE for [ ]
WrittenMarks(item) ==
    LET new == NewLines
    IN  {LineChecked(last_op, new[i]) : i \in WrittenFor(item)}

\* some line of signature sig is checked
SomeChecked(lines, sig) ==
    \E i \in LinesOf(lines, sig) : LineChecked(last_op, lines[i])

\* the last line of signature sig is checked
LastChecked(lines, sig) ==
    \E i \in LinesOf(lines, sig) :
        /\ LineChecked(last_op, lines[i])
        /\ \A j \in LinesOf(lines, sig) : j <= i

Items == {FetchedItems[i] : i \in 1..Len(FetchedItems)}

\* the task has a bucket in the note of target_date: no due date, or a due
\* date at most 7 days after the target day
DueDay(t) == 10 * DigitValue(t.due[9]) + DigitValue(t.due[10])
InNote(item) ==
    last_op = "calendar" \/ ~Truthy(item.due) \/ DueDay(item) <= target_date.day + 7

IsPrefix(p, s) == Len(p) <= Len(s) /\ SubSeq(s, 1, Len(p)) = p
IsSuffix(p, s) == Len(p) <= Len(s) /\ SubSeq(s, Len(s) - Len(p) + 1, Len(s)) = p

(***************************************************************************)
(* Properties                                                              *)
(***************************************************************************)

\* C1: with the fetched items and the target date fixed, the second of two
\* runs of the same exporter in a row leaves the note file byte-identical to
\* what the first run wrote, whatever the note was before (absent included).
C1_Idempotent ==
    (Exported /\ runs >= 2 /\ prev_op = last_op) => Note = pre

C3_NewItemsUnchecked ==
    Exported =>
        \A item \in Items :
            LinesOf(OldLines, ItemSignature(last_op, item)) = {}
            => TRUE \notin WrittenMarks(item)

\* the same remote item before a rename or a reschedule
Renamed(old, item) ==
    IF last_op = "calendar"
    THEN /\ old.location = item.location /\ old.is_all_day = item.is_all_day
         /\ (old.summary # item.summary \/ old.start # item.start \/ old.end # item.end)
    ELSE /\ old.notes = item.notes
         /\ (old.title # item.title \/ old.due # item.due)

ItemPool == IF last_op = "calendar" THEN EventPool ELSE TaskPool

TextBefore(text, heading) ==
    IF OwnedSpan(text, heading).found
    THEN Slice(text, 0, OwnedSpan(text, heading).start) ELSE text
TextAfter(text, heading) ==
    IF OwnedSpan(text, heading).found
    THEN Slice(text, OwnedSpan(text, heading).end, Len(text)) ELSE <<>>

\* C5 as stated: all text of the existing note outside the owned section,
\* blanks at its end included, is in the written text unchanged and in order.
C5_OutsideUntouched ==
    (Exported /\ pre.exists) =>
        /\ IsPrefix(TextBefore(pre.text, OwnedHeading), Note.text)
        /\ IsSuffix(TextAfter(pre.text, OwnedHeading), Note.text)
        /\ Len(TextBefore(pre.text, OwnedHeading)) + Len(TextAfter(pre.text, OwnedHeading))
           <= Len(Note.text)

\* C5 amended: the text outside the owned section is written back unchanged
\* and in order, except that a note without the owned section loses the
\* whitespace at its end before the section is appended.
C5_OutsideUntouchedButTrailingBlanks ==
    (Exported /\ pre.exists) =>
        LET before == IF OwnedSpan(pre.text, OwnedHeading).found
                      THEN TextBefore(pre.text, OwnedHeading)
                      ELSE rstrip(pre.text)
            after == TextAfter(pre.text, OwnedHeading)
        IN  /\ IsPrefix(before, Note.text)
            /\ IsSuffix(after, Note.text)
            /\ Len(before) + Len(after) <= Len(Note.text)

\* C5 witness: the existing note has text before and after its owned
\* section, and both are around the rebuilt section.
C5_Witness ==
    /\ Exported /\ pre.exists
    /\ OwnedSpan(pre.text, OwnedHeading).found
    /\ TextBefore(pre.text, OwnedHeading) # <<>>
    /\ TextAfter(pre.text, OwnedHeading) # <<>>
    /\ IsPrefix(TextBefore(pre.text, OwnedHeading), Note.text)
    /\ IsSuffix(TextAfter(pre.text, OwnedHeading), Note.text)
    /\ Note # pre

IsHeadingLine(line, heading) ==
    /\ IsPrefix(heading, line)
    /\ \A i \in (Len(heading) + 1)..Len(line) : line[i] = SP

\* number of heading lines of a text
HeadingCount(text, heading) ==
    LET lines == split(text, <<NL>>)
    IN  Cardinality({i \in 1..Len(lines) : IsHeadingLine(lines[i], heading)})

\* C7 as stated: after any export, on any prior content, the written file
\* has exactly one line that is the owned section heading.
C7_ExactlyOneHeading ==
    Exported => HeadingCount(Note.text, OwnedHeading) = 1

\* C7 amended: the written file has the owned heading exactly once when the
\* prior content had it at most once; when the prior content had it several
\* times only the first section is rewritten and the count stays the same.
C7_HeadingCountKept ==
    Exported =>
        HeadingCount(Note.text, OwnedHeading) =
            IF HeadingCount(pre.text, OwnedHeading) = 0 THEN 1
            ELSE HeadingCount(pre.text, OwnedHeading)

\* C7 witness: an export has rewritten a note that had the owned heading
\* twice, and the written note has it twice.
C7_Witness ==
    /\ Exported /\ pre.exists
    /\ HeadingCount(pre.text, OwnedHeading) = 2
    /\ HeadingCount(Note.text, OwnedHeading) = 2
    /\ Note # pre

\* C10: two fetched events that differ only in location are written with
\* the same mark.
C10_LocationIrrelevant ==
    last_op = "calendar" =>
        \A e1 \in Items : \A e2 \in Items :
            (/\ e1.summary = e2.summary /\ e1.start = e2.start
             /\ e1.end = e2.end /\ e1.is_all_day = e2.is_all_day)
            => \A i \in WrittenFor(e1) : \A j \in WrittenFor(e2) :
                  LineChecked(last_op, NewLines[i]) = LineChecked(last_op, NewLines[j])

\* the "### " subheading a line of the section stands under
BucketHeadingAt(lines, i) ==
    LET heads == {j \in 1..(i - 1) : IsPrefix(<<"#", "#", "#", SP>>, lines[j])}
    IN  IF heads = {} THEN <<>> ELSE lines[Max(heads)]

\* the bucket the spec gives a task, from its due day and the target day
ExpectedBucket(t) ==
    IF ~Truthy(t.due) THEN "no_due"
    ELSE IF DueDay(t) < target_date.day THEN "overdue"
    ELSE IF DueDay(t) = target_date.day THEN "today"
    ELSE IF DueDay(t) = target_date.day + 1 THEN "tomorrow"
    ELSE IF DueDay(t) <= target_date.day + 7 THEN "this_week"
    ELSE "dropped"

\* C8: every task is written under the heading of its bucket, once for each
\* time it was fetched and under no other heading; a task due 8 or more days
\* after the target day is not written.
C8_BucketExact ==
    last_op = "tasks" =>
        \A t \in Items :
            IF ExpectedBucket(t) = "dropped" THEN WrittenFor(t) = {}
            ELSE /\ Cardinality(WrittenFor(t)) =
                        Cardinality({k \in 1..Len(tasks) :
                                        ItemText("tasks", tasks[k]) = ItemText("tasks", t)})
                 /\ \A i \in WrittenFor(t) :
                        BucketHeadingAt(NewLines, i) = SectionTitles[ExpectedBucket(t)]

\* C8 witness: called with a time of day, the exporter wrote a task due 7
\* days after the target day under This Week and left out one due 8 days after.
C8_Witness ==
    /\ last_op = "tasks"
    /\ target_date.minute > 0
    /\ \E t \in Items :
          /\ Truthy(t.due) /\ DueDay(t) = target_date.day + 7
          /\ \E i \in WrittenFor(t) : BucketHeadingAt(NewLines, i) = SectionTitles.this_week
    /\ \E u \in Items :
          /\ Truthy(u.due) /\ DueDay(u) = target_date.day + 8
          /\ WrittenFor(u) = {}

\* C9: when the command has ended, every target date whose export does not
\* fail has been exported, every failing date has been reported, and the
\* summary of the notes written has been echoed.
C9_BatchContinues ==
    batch.pc \in {"done", "exit"} =>
        /\ \A k \in 1..Len(batch.target_dates) :
              IF Raises(batch.command, batch.target_dates[k])
              THEN \E m \in 1..Len(batch.stderr) :
                      batch.stderr[m] = [error |-> batch.target_dates[k].day]
              ELSE /\ \E m \in 1..Len(batch.exported_notes) :
                         batch.exported_notes[m] = batch.target_dates[k].day
                   /\ vault[batch.target_dates[k].day].exists
        /\ Len(batch.stdout) = 1

\* C11: every fetched item has a non-empty title, and its checklist line is
\* written with that title (the placeholder "(No title)" when the remote
\* title is missing or empty).
C11_TitleNeverEmpty ==
    Exported =>
        \A item \in Items :
            /\ (IF last_op = "calendar" THEN item.summary ELSE item.title) # <<>>
            /\ WrittenFor(item) # {}

\* the head of a new daily note (spec 4.4): the frontmatter block, a blank
\* line, the level-1 heading with the date, a blank line
DocHead(date) ==
    <<"-","-","-",NL>>
    \o <<"d","a","t","e",":",SP>> \o strftime(date) \o <<NL>>
    \o <<"t","y","p","e",":",SP,"d","a","i","l","y",NL>>
    \o <<"t","a","g","s",":",NL>>
    \o <<SP,SP,"-",SP,"d","a","i","l","y",NL>>
    \o <<"-","-","-",NL>>
    \o <<NL>>
    \o <<"#",SP>> \o strftime(date) \o <<NL>>
    \o <<NL>>

\* C12: when there was no note file, or an empty one, the written document
\* is the head of a new daily note followed by the owned section and nothing
\* else; the head is the same text for both exporters.
C12_NewDocument ==
    (Exported /\ (~pre.exists \/ pre.text = <<>>)) =>
        LET head == DocHead(target_date)
            span == OwnedSpan(Note.text, OwnedHeading)
        IN  /\ IsPrefix(head, Note.text)
            /\ span.found
            /\ span.start = Len(head)
            /\ span.end = Len(Note.text)

\* C12 witness: the task exporter has written a new document over an empty
\* note file, with a task in its section.
C12_Witness ==
    /\ last_op = "tasks"
    /\ pre.exists /\ pre.text = <<>>
    /\ tasks # <<>>
    /\ IsPrefix(DocHead(target_date), Note.text)
    /\ Len(Note.text) > Len(DocHead(target_date)) + Len(H2Tasks)

\* the lines that are not blank
NonBlank(lines) == SelectSeq(lines, LAMBDA l : strip(l) # <<>>)

\* the "### " lines of a section
SubHeadings(lines) ==
    {lines[i] : i \in {j \in 1..Len(lines) : IsPrefix(<<"#", "#", "#", SP>>, lines[j])}}

\* the buckets that have a task
FilledBuckets == {ExpectedBucket(t) : t \in Items} \ {"dropped"}

\* C13: with no event the Calendar section is the heading and the line
\* "- No events scheduled"; with no task in any bucket the Tasks section is
\* the heading alone; the "### " headings written are those of the buckets
\* that have a task.
C13_EmptyState ==
    LET new == NewLines
    IN  /\ (last_op = "calendar" /\ events = <<>>)
            => NonBlank(new) = <<H2Calendar, NoEventsLine>>
        /\ (last_op = "tasks" /\ FilledBuckets = {})
            => NonBlank(new) = <<H2Tasks>>
        /\ last_op = "tasks"
            => SubHeadings(new) = {SectionTitles[c] : c \in FilledBuckets}

\* C13 witness: the only fetched tasks are due after the week, the note had
\* a Tasks section with a checklist line, and the heading alone is written.
C13_Witness ==
    /\ last_op = "tasks"
    /\ tasks # <<>>
    /\ FilledBuckets = {}
    /\ Len(NonBlank(OldLines)) > 1
    /\ NonBlank(NewLines) = <<H2Tasks>>

\* the checklist texts and the "### " headings of a section, in order
ShownLines(lines) ==
    LET keep == SelectSeq(lines, LAMBDA l : ItemLine(last_op, l)
                                            \/ IsPrefix(<<"#", "#", "#", SP>>, l))
    IN  [i \in 1..Len(keep) |->
            IF ItemLine(last_op, keep[i]) THEN LineText(last_op, keep[i]) ELSE keep[i]]

\* the heading of a bucket and its tasks in input order, nothing if it is empty
BucketBlock(c) ==
    LET ts == SelectSeq(tasks, LAMBDA t : ExpectedBucket(t) = c)
    IN  IF ts = <<>> THEN <<>>
        ELSE <<SectionTitles[c]>> \o [i \in 1..Len(ts) |-> ItemText("tasks", ts[i])]

LastMark(lines, sig) ==
    LineChecked(last_op, lines[Max(LinesOf(lines, sig))])

\* C15: when the previous owned section shows a signature on two or more
\* checklist lines, an item of that signature is written with the mark of
\* the last of these lines.
C15_LastLineWins ==
    Exported =>
        LET old == OldLines
        IN  \A item \in Items :
                (InNote(item)
                 /\ Cardinality(LinesOf(old, ShownSignature(last_op, item))) >= 2)
                => WrittenMarks(item) = {LastMark(old, ShownSignature(last_op, item))}

\* C15 witness: the previous section shows the signature of an item checked
\* and then unchecked, and the item is written unchecked.
C15_Witness ==
    /\ Exported
    /\ \E item \in Items :
          /\ Cardinality(LinesOf(OldLines, ShownSignature(last_op, item))) >= 2
          /\ SomeChecked(OldLines, ShownSignature(last_op, item))
          /\ ~LastMark(OldLines, ShownSignature(last_op, item))
          /\ WrittenMarks(item) = {FALSE}

\* the note has the section of exporter op, and the section has no
\* checklist line
Malformed(op, file) ==
    /\ file.exists
    /\ LET lines == OwnedLines(file.text, IF op = "calendar" THEN H2Calendar ELSE H2Tasks)
       IN  /\ lines # <<>>
           /\ \A i \in 1..Len(lines) : ~ItemLine(op, lines[i])

\* the checked-state map the exporter op reads from a note
CheckedItems(op, file) ==
    IF op = "calendar"
    THEN Cal_parse_checked_items(Cal_extract_calendar_section(file.text))
    ELSE Task_parse_checked_items(file.text)

\* C16: an export over a note whose owned section has no well-formed
\* checklist line completes: the checked-state map read from the note is
\* empty, the file is written with the section, and every fetched item in it
\* is unchecked.
C16_MalformedNote ==
    (Exported /\ Malformed(last_op, pre))
        => /\ CheckedItems(last_op, pre) = EmptyDict
           /\ Note.exists
           /\ OwnedSpan(Note.text, OwnedHeading).found
           /\ \A item \in Items :
                 InNote(item) => WrittenMarks(item) = {FALSE}

\* C16 witness: the section of the previous note had lines beside its
\* heading, none of them a checklist line, and items were written unchecked.
C16_Witness ==
    /\ Exported
    /\ Malformed(last_op, pre)
    /\ Len(NonBlank(OldLines)) > 1
    /\ \E item \in Items : WrittenMarks(item) = {FALSE}

\* both runs are over, and both read the file before either wrote it
Interleaved ==
    /\ DOMAIN procs = ExportRuns
    /\ \A p \in ExportRuns : procs[p].pc = "done" /\ procs[p].seen = 0

\* the run that wrote first
FirstWriter == CHOOSE p \in ExportRuns : p # last_op

HeadingOf(p) == IF p = "calendar" THEN H2Calendar ELSE H2Tasks

\* C17: when both runs read the note before either wrote it, the file is
\* what the last writer alone makes of the note that was read: the section of
\* the first writer is as it was before the two runs, and on a new note the
\* file has the last writer's section and not the other one.
C17_LastWriterWins ==
    Interleaved =>
        LET read == [exists |-> procs[FirstWriter].exists, text |-> procs[FirstWriter].text]
            lost == HeadingOf(FirstWriter)
        IN  /\ Note = File(Race_content(last_op, read))
            /\ OwnedSpan(Note.text, lost).found = OwnedSpan(read.text, lost).found
            /\ NonBlank(OwnedLines(Note.text, lost)) = NonBlank(OwnedLines(read.text, lost))
            /\ ~read.exists =>
                  /\ OwnedSpan(Note.text, HeadingOf(last_op)).found
                  /\ ~OwnedSpan(Note.text, lost).found

\* C17 witness: a calendar export and a task export raced on a new note,
\* each had items to write, and the file has the tasks but no calendar section.
C17_Witness ==
    /\ Interleaved
    /\ ~procs["calendar"].exists
    /\ events # <<>>
    /\ tasks # <<>>
    /\ last_op = "tasks"
    /\ OwnedSpan(Note.text, H2Tasks).found
    /\ ~OwnedSpan(Note.text, H2Calendar).found

\* the account has no task list
NoTaskList == GetKey(tasklists, "items", <<>>) = <<>>

\* C18: every operation starts with tasklists().list(maxResults=1); when the
\* account has no task list the operation raises ValueError "No task lists
\* found", and no request ever reaches the tasks resource.
C18_NoTaskList ==
    /\ \A k \in 1..Len(result) :
          /\ result[k].requests # <<>>
          /\ result[k].requests[1] = TasklistsList
          /\ NoTaskList =>
                /\ result[k].raised = NoTaskLists
                /\ Len(result[k].requests) = 1
    /\ NoTaskList => \A i \in 1..Len(calls) : calls[i].resource # "tasks"

\* C18 witness: with no task list, a delete_task and another operation
\* were called, and both raised.
C18_Witness ==
    /\ NoTaskList
    /\ \E k \in 1..Len(result) :
          result[k].op = "delete_task" /\ result[k].raised = NoTaskLists
    /\ \E k \in 1..Len(result) :
          result[k].op = "list_tasks" /\ result[k].raised = NoTaskLists

\* operation k returned normally from op
Returned(k, op) == result[k].op = op /\ result[k].raised = None

\* the update requests of operation k
UpdatesOf(k) ==
    SelectSeq(result[k].requests,
              LAMBDA r : r.resource = "tasks" /\ r.method = "update")

\* the body of the update operation k sent
BodyOf(k) == UpdatesOf(k)[1].kwargs.body

\* the fields of a task other than status and completed
OtherFields == {"id", "title", "notes", "due", "updated", "etag"}

\* operation k read the task, then sent one update for it, with the other
\* fields as fetched
ReadThenOneUpdate(k) ==
    /\ result[k].requests[2].method = "get"
    /\ result[k].requests[2].kwargs.task = result[k].args.task_id
    /\ Len(UpdatesOf(k)) = 1
    /\ UpdatesOf(k)[1].kwargs.task = result[k].args.task_id
    /\ \A f \in OtherFields : BodyOf(k)[f] = result[k].existing_task[f]

\* what complete_task and uncomplete_task each send
CompleteAndUncompleteBodies ==
    \A k \in 1..Len(result) :
        /\ Returned(k, "complete_task") =>
              /\ ReadThenOneUpdate(k)
              /\ BodyOf(k).status = Completed
              /\ BodyOf(k).completed \notin {Missing, None}
        /\ Returned(k, "uncomplete_task") =>
              /\ ReadThenOneUpdate(k)
              /\ BodyOf(k).status = NeedsAction
              /\ BodyOf(k).completed = Missing

\* operation k completed a task and operation k + 1 uncompleted the same task
RoundTrip(k) ==
    /\ k + 1 <= Len(result)
    /\ Returned(k, "complete_task")
    /\ Returned(k + 1, "uncomplete_task")
    /\ result[k].args.task_id = result[k + 1].args.task_id

\* C19 as stated: after complete_task then uncomplete_task the body sent
\* back is the original task with status "needsAction".
C19_RoundTripIsOriginal ==
    /\ CompleteAndUncompleteBodies
    /\ \A k \in 1..Len(result) :
          RoundTrip(k) =>
              BodyOf(k + 1) = [result[k].existing_task EXCEPT !.status = NeedsAction]

\* C19: complete_task sends one update with status "completed" and a
\* completed timestamp, uncomplete_task one update with status "needsAction"
\* and no "completed" key, every other field as fetched; after complete_task
\* then uncomplete_task the body sent back is the original task with status
\* "needsAction" and without the "completed" key the original may have had.
C19_RoundTripDropsCompleted ==
    /\ CompleteAndUncompleteBodies
    /\ \A k \in 1..Len(result) :
          RoundTrip(k) =>
              BodyOf(k + 1) = [result[k].existing_task EXCEPT !.status = NeedsAction,
                                                              !.completed = Missing]

\* C19 witness: a task that was completed before, with its own completed
\* timestamp, went through complete_task and uncomplete_task.
C19_Witness ==
    \E k \in 1..Len(result) :
        /\ RoundTrip(k)
        /\ result[k].existing_task.status = Completed
        /\ result[k].existing_task.completed = StampT0
        /\ BodyOf(k).completed # StampT0

\* two characters are the same letter, whatever their case
SameLetter(c, d) == lower(<<c>>) = lower(<<d>>)

\* text contains q, case ignored
ContainsIgnoringCase(text, q) ==
    \E i \in 0..(Len(text) - Len(q)) :
        \A j \in 1..Len(q) : SameLetter(text[i + j], q[j])

\* the text of a field of a returned task
FieldText(v) == IF v = None THEN <<>> ELSE v

\* the returned task has the query in its title or its notes
QueryIn(task, q) ==
    \/ ContainsIgnoringCase(FieldText(task.title), q)
    \/ ContainsIgnoringCase(FieldText(task.notes), q)

\* C20: list_tasks sends one tasks().list request, on the default task list
\* with the given maxResults; completed False sends showCompleted False, True
\* sends showCompleted and showHidden True, None sends neither; it returns
\* the API's tasks in their order, and with a query only those that have the
\* query in title or notes, case ignored.
C20_ListTasks ==
    \A k \in 1..Len(result) :
        Returned(k, "list_tasks") =>
            LET a == result[k].args
                kw == result[k].requests[2].kwargs
                items == ProcessTasks(result[k].store)
            IN  /\ Len(result[k].requests) = 2
                /\ result[k].requests[2].resource = "tasks"
                /\ result[k].requests[2].method = "list"
                /\ kw.tasklist = tasklists.items[1].id
                /\ kw.maxResults = a.max_results
                /\ a.completed = PyFalse => kw.showCompleted = PyFalse
                /\ a.completed = PyTrue =>
                      kw.showCompleted = PyTrue /\ kw.showHidden = PyTrue
                /\ a.completed = None =>
                      kw.showCompleted = Missing /\ kw.showHidden = Missing
                /\ result[k].value =
                      IF a.query = None THEN items
                      ELSE SelectSeq(items, LAMBDA t : QueryIn(t, a.query))

\* C20 witness: a list_tasks with an upper-case query returned some of the
\* API's tasks and left others out, one returned task having the query in
\* its notes only.
C20_Witness ==
    \E k \in 1..Len(result) :
        /\ Returned(k, "list_tasks")
        /\ result[k].args.query = <<"A">>
        /\ result[k].args.completed = PyTrue
        /\ 0 < Len(result[k].value)
        /\ Len(result[k].value) < Len(result[k].store)
        /\ \E i \in 1..Len(result[k].value) :
              ~ContainsIgnoringCase(FieldText(result[k].value[i].title), <<"A">>)

\* the fields update_task never assigns
UntouchedFields == {"id", "status", "completed", "updated", "etag"}

UniqueSignature(item) ==
    \A i, j \in 1..Len(FetchedItems) :
        (FetchedItems[i] = item /\ i # j)
        => ItemSignature(last_op, FetchedItems[j]) # ItemSignature(last_op, item)

\* the positions of the lines of an item in the owned section
ItemLines(lines, item) ==
    {i \in 1..Len(lines) :
        /\ ItemLine(last_op, lines[i])
        /\ LineText(last_op, lines[i]) = ItemText(last_op, item)}

\* C22: an item whose signature no other fetched item has, and whose line
\* is checked in the note when an export starts, has its line checked when
\* the export ends; the fetch being the same in every run, the mark the user
\* set is then there after every later export.
C22_CheckedStateKept ==
    Exported =>
        LET old == OldLines
        IN  \A item \in Items :
                ( /\ UniqueSignature(item)
                  /\ InNote(item)
                  /\ ItemLines(old, item) # {}
                  /\ \A i \in ItemLines(old, item) : LineChecked(last_op, old[i]) )
                => WrittenMarks(item) = {TRUE}

\* the heading of the section the last export does not own
OtherSection == IF last_op = "calendar" THEN H2Tasks ELSE H2Calendar

\* the text of a section: from its heading up to the next "## " line or the
\* end of the text
SectionText(text, heading) ==
    IF OwnedSpan(text, heading).found
    THEN Slice(text, OwnedSpan(text, heading).start, OwnedSpan(text, heading).end)
    ELSE <<>>

\* C23 as stated: after a run the note has the section of the run, it has
\* the other section exactly if it had it before the run (so both, once each
\* exporter has run), and the text of the other section, marks and blank
\* lines included, is what it was before the run.
C23_OtherSectionUnchanged ==
    Exported =>
        /\ OwnedSpan(Note.text, OwnedHeading).found
        /\ OwnedSpan(Note.text, OtherSection).found
           = OwnedSpan(pre.text, OtherSection).found
        /\ SectionText(Note.text, OtherSection) = SectionText(pre.text, OtherSection)

\* C23 amended: the same, the text of the other section being compared
\* without the whitespace at its end.
C23_OtherSectionKept ==
    Exported =>
        /\ OwnedSpan(Note.text, OwnedHeading).found
        /\ OwnedSpan(Note.text, OtherSection).found
           = OwnedSpan(pre.text, OtherSection).found
        /\ rstrip(SectionText(Note.text, OtherSection))
           = rstrip(SectionText(pre.text, OtherSection))

\* C23 witness: the third run is a calendar export over a note whose Tasks
\* section follows the Calendar section and has a box the user checked; the
\* box is still checked.
C23_Witness ==
    /\ last_op = "calendar"
    /\ runs = 3
    /\ events # <<>>
    /\ OwnedSpan(pre.text, H2Tasks).found
    /\ OwnedSpan(pre.text, H2Calendar).found
    /\ OwnedSpan(pre.text, H2Calendar).start < OwnedSpan(pre.text, H2Tasks).start
    /\ \E i \in 1..Len(OwnedLines(pre.text, H2Tasks)) :
          /\ ItemLine("tasks", OwnedLines(pre.text, H2Tasks)[i])
          /\ LineChecked("tasks", OwnedLines(pre.text, H2Tasks)[i])
    /\ \E i \in 1..Len(OwnedLines(Note.text, H2Tasks)) :
          /\ ItemLine("tasks", OwnedLines(Note.text, H2Tasks)[i])
          /\ LineChecked("tasks", OwnedLines(Note.text, H2Tasks)[i])

\* the section text the last export built from its items and the checked
\* map of the note it read
BuiltSection ==
    IF last_op = "calendar"
    THEN Cal_build_calendar_section(events, CheckedItems("calendar", pre))
    ELSE Task_build_tasks_section(Task_categorize_tasks(tasks, target_date),
                                  CheckedItems("tasks", pre))

\* the map the parser of the last exporter reads from a section text
ParsedSection(section) ==
    IF last_op = "calendar" THEN Cal_parse_checked_items(section)
    ELSE Task_parse_checked_items(section)

\* the items the last export rendered: every event, every task of a bucket
RenderedItems ==
    IF last_op = "calendar" THEN Items
    ELSE {t \in Items : Task_category(t, target_date) # "dropped"}

\* the signature of a rendered item: the one the builder computes from the
\* item's text and looks up in the checked map
LookupSignature(item) ==
    IF last_op = "calendar" THEN Cal_signature(Cal_format_event_checklist(item))
    ELSE Task_extract_task_signature(Task_format_task_checklist(item))

\* C24: parsing the section the builder produced gives a map whose keys are
\* exactly the signatures of the rendered items, each mapped to the mark
\* that was rendered; notes lines add no key and do not end the section.
C24_BuildParseRoundTrip ==
    Exported =>
        /\ DOMAIN ParsedSection(BuiltSection)
           = {LookupSignature(item) : item \in RenderedItems}
        /\ \A item \in RenderedItems :
              Get(ParsedSection(BuiltSection), LookupSignature(item))
              = Get(CheckedItems(last_op, pre), LookupSignature(item))

\* the map from the signatures of the checklist lines among lines, as the
\* exporter read reads a line, to the mark of the last such line; the
\* signature is the one of the exporter op
FormMap(op, read, lines) ==
    LET idx == {i \in 1..Len(lines) : ItemLine(read, lines[i])}
        sig(i) == TextSignature(op, LineText(read, lines[i]))
    IN  [k \in {sig(i) : i \in idx} |->
            LineChecked(read, lines[Max({i \in idx : sig(i) = k})])]

\* C25 as stated: in both exporters the checked map read from a note has an
\* entry only for the lines of the section that are "- [ ] <text>" or
\* "- [x] <text>" from their first column; any other line adds nothing.
C25_OnlyExactLines ==
    Exported => CheckedItems(last_op, pre) = FormMap(last_op, "tasks", OldLines)

\* C25 amended: the task exporter takes the lines that have the form from
\* their first column, the calendar exporter the lines that have it once the
\* blanks around the line are dropped; any other line adds nothing.
C25_OnlyChecklistLines ==
    Exported => CheckedItems(last_op, pre) = FormMap(last_op, last_op, OldLines)

\* C25 witness: a calendar export read a section where an indented checked
\* line is the only line of its signature and recorded it, the capital X
\* line and the ### heading beside it adding nothing.
C25_Witness ==
    /\ last_op = "calendar"
    /\ \E i \in 1..Len(OldLines) :
          /\ OldLines[i] = <<SP, SP>> \o CheckLine("x", SlotB)
          /\ Get(CheckedItems("calendar", pre), SlotB)
    /\ \E i \in 1..Len(OldLines) :
          OldLines[i] \in {SectionTitles.today, <<"-", SP, "[", "X", "]", SP>> \o SlotB}
    /\ DOMAIN CheckedItems("calendar", pre) = {SlotB}

\* <vault_root>/daily/<YYYY>/<YYYY-MM>/<YYYY-MM-DD>.md for the calendar date
\* of a datetime
StatedNotePath(root_string, date) ==
    Path(root_string)
    \o << DailyDir, <<"2","0","2","5">>, <<"2","0","2","5","-","1","1">>,
          <<"2","0","2","5","-","1","1","-">> \o TwoDigits(date.day) \o MdSuffix >>

\* C26: for one vault root string both exporters read and write the file
\* <vault_root>/daily/YYYY/YYYY-MM/YYYY-MM-DD.md of the target's calendar
\* date: after an export that file exists, and no file exists anywhere else.
C26_SameNoteFile ==
    Exported =>
        /\ vault[StatedNotePath(obsidian_root, target_date)].exists
        /\ \A p \in DOMAIN vault :
              vault[p].exists => \E d \in PathDates : p = StatedNotePath(obsidian_root, d)

\* the task lists that differ from a list in remote status and completed
\* time only
SameButRemoteState(list) ==
    { other \in [1..Len(list) -> StatusTasks] :
        \A i \in 1..Len(list) :
            /\ other[i].title = list[i].title
            /\ other[i].due = list[i].due
            /\ other[i].notes = list[i].notes }

\* C27: the Tasks section written for a task list is the one written for
\* any list that differs in status / completed only, and the mark of every
\* line is the one the checked map of the note had for the line's signature.
C27_MarkIgnoresRemoteState ==
    (Exported /\ last_op = "tasks") =>
        /\ \A other \in SameButRemoteState(tasks) :
              Task_build_tasks_section(Task_categorize_tasks(other, target_date),
                                       CheckedItems("tasks", pre))
              = Task_build_tasks_section(Task_categorize_tasks(tasks, target_date),
                                         CheckedItems("tasks", pre))
        /\ \A i \in 1..Len(NewLines) :
              ItemLine("tasks", NewLines[i]) =>
                  LineChecked("tasks", NewLines[i])
                  = Get(CheckedItems("tasks", pre), LineSignature("tasks", NewLines[i]))

\* C27 witness: a task completed remotely is written unchecked, and an open
\* task whose line was checked in the note is written checked.
C27_Witness ==
    /\ last_op = "tasks"
    /\ Len(tasks) = 2
    /\ tasks[1].status = Completed
    /\ tasks[2].status = NeedsAction
    /\ \E i \in 1..Len(NewLines) :
          /\ ItemLine("tasks", NewLines[i])
          /\ LineText("tasks", NewLines[i]) = ItemText("tasks", tasks[1])
          /\ ~LineChecked("tasks", NewLines[i])
    /\ \E i \in 1..Len(NewLines) :
          /\ ItemLine("tasks", NewLines[i])
          /\ LineText("tasks", NewLines[i]) = ItemText("tasks", tasks[2])
          /\ LineChecked("tasks", NewLines[i])

\* the times of day of one calendar date
TimesOfDay == {0, 785, 1439}

\* C28: the buckets of a task list, and the note written from them, are the
\* same for every time of day of the target's calendar date.
C28_BucketsIgnoreTimeOfDay ==
    (Exported /\ last_op = "tasks") =>
        \A m \in TimesOfDay :
            LET other == [day |-> target_date.day, minute |-> m]
            IN  /\ Task_categorize_tasks(tasks, other)
                   = Task_categorize_tasks(tasks, target_date)
                /\ Note.text
                   = Task_export_tasks_to_daily(pre.exists, pre.text, tasks, other)

\* C28 witness: an export at 23:59 of a task due 7 days after the target
\* date and of a task due 8 days after it: the first is under This Week,
\* the second is in no bucket.
C28_Witness ==
    /\ last_op = "tasks"
    /\ target_date.minute = 1439
    /\ Len(tasks) = 2
    /\ tasks[1].due = IsoDue(TargetDay + 7)
    /\ tasks[2].due = IsoDue(TargetDay + 8)
    /\ Task_categorize_tasks(tasks, target_date).this_week = <<tasks[1]>>
    /\ \A c \in {Categories[i] : i \in 1..Len(Categories)} \ {"this_week"} :
          Task_categorize_tasks(tasks, target_date)[c] = <<>>
    /\ \E i \in 1..Len(NewLines) : NewLines[i] = SectionTitles.this_week

\* C29: a run that raised has not written: the note file is as it was when
\* the run started, and the run ended with the error, before its return.
C29_RaiseLeavesFile ==
    \A p \in DOMAIN procs :
        RunRaised(p) =>
            /\ Note = procs[p].before
            /\ procs[p].at <= Len(Export_steps)
            /\ procs[p].error \in {OSError, ValueError}

\* C29 witness: the calendar export has written the note, then the task
\* export raised in categorization on a due string that is no date; the note
\* is the one the calendar export wrote.
C29_Witness ==
    /\ DOMAIN procs = ExportRuns
    /\ RunReturned("calendar")
    /\ procs["tasks"].error = ValueError
    /\ tasks = <<Task(TitleA, BadDue, None)>>
    /\ Note.exists
    /\ Note.text = procs["calendar"].content
    /\ OwnedSpan(Note.text, H2Calendar).found
    /\ ~OwnedSpan(Note.text, H2Tasks).found

\* the offsets where the section of the message id starts in a text
MessageSections(text, id) ==
    {p \in 0..Len(text) :
        StartsWithAt(text, p, <<"*", "*">> \o MessageIdLabel
                              \o <<"*", "*", SP, Backtick>> \o id \o <<Backtick>>)}

\* the messages the last export_thread was given
ExportedMessages == SubSeq(mail.thread, 1, mail.exported)

\* C30: after an export of a thread every message it was given is in the
\* note once; and when every one of them was in the note before, the export
\* did not write and the note is as it was.
C30_AppendOnlyDeduplicated ==
    (mail # <<>> /\ mail.runs > 0) =>
        /\ \A i \in 1..Len(ExportedMessages) :
              Cardinality(MessageSections(mail.note_file.text, ExportedMessages[i].id)) = 1
        /\ (mail.existing.exists
            /\ \A i \in 1..Len(ExportedMessages) :
                  MessageSections(mail.existing.text, ExportedMessages[i].id) # {})
           => (~mail.wrote /\ mail.note_file = mail.existing)

====
